---- MODULE Spec2Model ----
(***************************************************************************)
(* Clinical State Compiler: the compilation core of the repository.        *)
(*                                                                         *)
(*   src/src/compiler/compiler.py   ClinicalCompiler (compile and stages)  *)
(*   src/src/compiler/medgemma.py   MedGemmaProcessor (single-pass         *)
(*                                  extraction, conflicts, status)         *)
(*   src/src/compiler/safety.py     SafetyChecker (rule-based alerts)      *)
(*   src/src/compiler/multipass.py  MultiPassExtractor (three passes)      *)
(*                                                                         *)
(* A Python str is a sequence of one-character strings, so that lower(),   *)
(* strip(), split(), the `in` operator and the regular expressions are     *)
(* computed character by character as the code computes them.  The text    *)
(* generation model (MedGemmaProcessor.generate) is an external            *)
(* collaborator: its answer is a nondeterministic choice from a pool.      *)
(* datetime.now() (ClinicalSnapshot.generated_at) is not modelled.  A lab  *)
(* value is the fraction its digits denote, a threshold is in tenths and a *)
(* confidence in hundredths, so that the comparisons are exact.            *)
(***************************************************************************)
EXTENDS Integers, Sequences, FiniteSets, TLC

None == "None"

\* ------------------------------------------------------------------------
\* Python str operations
\* ------------------------------------------------------------------------
UpperLetters ==
    <<"A","B","C","D","E","F","G","H","I","J","K","L","M",
      "N","O","P","Q","R","S","T","U","V","W","X","Y","Z">>
LowerLetters ==
    <<"a","b","c","d","e","f","g","h","i","j","k","l","m",
      "n","o","p","q","r","s","t","u","v","w","x","y","z">>
\* set(list)
Range(f) == {f[i] : i \in DOMAIN f}

Digits == {"0","1","2","3","4","5","6","7","8","9"}
Whitespace == {" ", "\n", "\t"}

\* the case mappings of str.lower() and str.upper() on the ASCII letters
lower_char ==
    [c \in Range(UpperLetters) \cup Range(LowerLetters) |->
        IF c \in Range(UpperLetters)
        THEN LowerLetters[CHOOSE i \in 1..26 : UpperLetters[i] = c] ELSE c]
upper_char ==
    [c \in Range(UpperLetters) \cup Range(LowerLetters) |->
        IF c \in Range(LowerLetters)
        THEN UpperLetters[CHOOSE i \in 1..26 : LowerLetters[i] = c] ELSE c]

\* a str literal: its characters
str(literal) == [i \in 1..Len(literal) |-> SubSeq(literal, i, i)]

\* str.lower(), str.upper()
lower(s) == [i \in 1..Len(s) |-> IF s[i] \in DOMAIN lower_char THEN lower_char[s[i]] ELSE s[i]]
upper(s) == [i \in 1..Len(s) |-> IF s[i] \in DOMAIN upper_char THEN upper_char[s[i]] ELSE s[i]]

\* s[a:b] with 0-based half-open Python indices, 0 <= a, 0 <= b
slice(s, a, b) == SubSeq(s, a + 1, IF b > Len(s) THEN Len(s) ELSE b)

\* s.startswith(p, i): p stands in s at the 0-based offset i
matches_at(s, i, p) ==
    /\ i + Len(p) <= Len(s)
    /\ \A j \in 1..Len(p) : s[i + j] = p[j]

\* p in s
contains(s, p) == \E i \in 0..(Len(s) - Len(p)) : matches_at(s, i, p)

\* s.find(p): lowest 0-based index, -1 when absent
find(s, p) ==
    IF contains(s, p)
    THEN CHOOSE i \in 0..(Len(s) - Len(p)) :
            /\ matches_at(s, i, p)
            /\ \A k \in 0..(i - 1) : ~matches_at(s, k, p)
    ELSE -1

\* s.lstrip(), s.rstrip(), s.strip(): whitespace removed at the ends
lstrip(s) ==
    LET ks == {k \in 1..Len(s) : s[k] \notin Whitespace}
    IN  IF ks = {} THEN <<>>
        ELSE SubSeq(s, CHOOSE k \in ks : \A m \in ks : k <= m, Len(s))
rstrip(s) ==
    LET ks == {k \in 1..Len(s) : s[k] \notin Whitespace}
    IN  IF ks = {} THEN <<>>
        ELSE SubSeq(s, 1, CHOOSE k \in ks : \A m \in ks : k >= m)
strip(s) == lstrip(rstrip(s))

\* s.rstrip(chars): every trailing character of the set removed
rstrip_chars(s, chars) ==
    LET ks == {k \in 1..Len(s) : s[k] \notin chars}
    IN  IF ks = {} THEN <<>>
        ELSE SubSeq(s, 1, CHOOSE k \in ks : \A m \in ks : k >= m)

\* s.split(sep) for a one-character separator: the pieces between separators
RECURSIVE split_sep(_, _)
split_sep(s, sep) ==
    LET ks == {k \in 1..Len(s) : s[k] = sep}
    IN  IF ks = {} THEN <<s>>
        ELSE LET k == CHOOSE k \in ks : \A m \in ks : k <= m
             IN  <<SubSeq(s, 1, k - 1)>> \o split_sep(SubSeq(s, k + 1, Len(s)), sep)

\* s.split(): the maximal runs of non-whitespace characters
RECURSIVE split(_)
split(s) ==
    LET t == lstrip(s)
        ks == {k \in 1..Len(t) : t[k] \in Whitespace}
    IN  IF t = <<>> THEN <<>>
        ELSE IF ks = {} THEN <<t>>
        ELSE LET k == CHOOSE k \in ks : \A m \in ks : k <= m
             IN  <<SubSeq(t, 1, k - 1)>> \o split(SubSeq(t, k + 1, Len(t)))

\* any(kw in text for kw in keywords)
contains_any(s, keywords) == \E i \in 1..Len(keywords) : contains(s, keywords[i])

\* ------------------------------------------------------------------------
\* Inputs: documents (models.py InputDocument) and the answers of the
\* generation collaborator
\* ------------------------------------------------------------------------

\* compile's mode parameter
Modes == {"handover", "discharge", "gp_summary", "general"}

\* Documents handed to compile (models.py InputDocument).  The third has the
\* id of the first.
DocPool ==
    {[id |-> "d1", source_type |-> "typed_note", timestamp |-> "t1", filename |-> "ward.txt",
      content |-> str("Chest pain. ?PE. Chase bloods.")],
     [id |-> "d2", source_type |-> "lab_result", timestamp |-> None, filename |-> None,
      content |-> str("K 5.1")],
     [id |-> "d1", source_type |-> "dictation", timestamp |-> "t2", filename |-> None,
      content |-> str("come in with pain")]}

MaxDocs == 2
MaxCalls == 2

SeqsUpTo(S, n) == UNION {[1..k -> S] : k \in 0..n}
DocLists == SeqsUpTo(DocPool, MaxDocs)

\* Answers of MedGemmaProcessor.generate to the three kinds of request
ExtractResponses ==
    {str("ACTIVE_PROBLEMS:\n- Chest pain\n- ?PE\nPLANS:\n- Repeat ECG\n")
        \o str("PENDING:\n- Chase bloods\n- Urgent cardiology review\n")
        \o str("RISKS:\n- None identified\nUNCLEAR:\n- Dose unclear"),
     str("active_problems\n- pain\nPending:\n-  chase BLOODS \n- Family update tomorrow\n")
        \o str("- Critical potassium recheck\nRISKS:\n- Severe sepsis risk\nno list marker"),
     str("PENDING:\n- CHASE BLOODS\n- Routine bloods\n- Family update tomorrow\n")
        \o str("- Restart statin today"),
     str("I cannot help with that.")}
ConflictResponses ==
    {str("KEEP: Chest pain\nKEEP: ?PE"),
     str("CONFLICT: Chest pain | pain | same complaint"),
     str("CONFLICT: nothing to report")}
StatusResponses == {str("Stable."), str("Unwell.")}

\* ------------------------------------------------------------------------
\* medgemma.py: MedGemmaProcessor
\* ------------------------------------------------------------------------
section_map ==
    LET entries == {<<str("ACTIVE_PROBLEMS"), "active_problems">>,
                    <<str("HISTORICAL_PROBLEMS"), "historical_problems">>,
                    <<str("MEDICATIONS"), "medications">>,
                    <<str("INVESTIGATIONS"), "investigations">>,
                    <<str("PLANS"), "plans">>,
                    <<str("PENDING"), "pending">>,
                    <<str("RISKS"), "risks">>,
                    <<str("UNCLEAR"), "unclear">>}
    IN  [header \in {e[1] : e \in entries} |-> (CHOOSE e \in entries : e[1] = header)[2]]

empty_sections ==
    [active_problems |-> <<>>, historical_problems |-> <<>>, medications |-> <<>>,
     investigations |-> <<>>, plans |-> <<>>, pending |-> <<>>, risks |-> <<>>,
     unclear |-> <<>>]

\* the loop over response.split("\n") of _parse_extraction_response
RECURSIVE parse_lines(_, _, _, _)
parse_lines(lines, current_section, sections, source_id) ==
    IF lines = <<>> THEN sections
    ELSE LET line == strip(Head(lines))
             header == upper(rstrip_chars(line, {":"}))
             item == strip(slice(line, 1, Len(line)))
         IN  IF line = <<>>
             THEN parse_lines(Tail(lines), current_section, sections, source_id)
             ELSE IF header \in DOMAIN section_map
             THEN parse_lines(Tail(lines), section_map[header], sections, source_id)
             ELSE IF /\ current_section # None
                     /\ matches_at(line, 0, <<"-">>)
                     /\ lower(item) # str("none identified")
                     /\ item # <<>>
             THEN parse_lines(Tail(lines), current_section,
                      [sections EXCEPT ![current_section] =
                          Append(@, [text |-> item, source_id |-> source_id])],
                      source_id)
             ELSE parse_lines(Tail(lines), current_section, sections, source_id)

parse_extraction_response(response, source_id) ==
    parse_lines(split_sep(response, "\n"), None, empty_sections, source_id)

\* The request of extract_clinical_info (the f-string prompt, by its parts)
extract_request(document) ==
    [kind |-> "extract", doc_type |-> document.source_type, doc_id |-> document.id,
     content |-> document.content]

\* extract_clinical_info, given the collaborator's answer
extract_clinical_info(document, response) ==
    parse_extraction_response(response, document.id)

texts_of(items) == [i \in 1..Len(items) |-> items[i].text]

RECURSIVE concat_all(_)
concat_all(seqs) == IF seqs = <<>> THEN <<>> ELSE Head(seqs) \o concat_all(Tail(seqs))

\* The request of synthesize_status: the texts under ACTIVE PROBLEMS and
\* PENDING ITEMS of the prompt
synthesize_request(extracted_data_arg) ==
    [kind |-> "synthesize",
     all_problems |-> concat_all([i \in 1..Len(extracted_data_arg) |->
                         texts_of(extracted_data_arg[i].active_problems)]),
     all_pending |-> concat_all([i \in 1..Len(extracted_data_arg) |->
                         texts_of(extracted_data_arg[i].pending)])]

\* The request of resolve_conflicts: "[source_id]: text" per item
resolve_request(items, category) ==
    [kind |-> "resolve", category |-> category,
     items |-> [i \in 1..Len(items) |->
                  [source_id |-> items[i].source_id, text |-> items[i].text]]]

\* Mutant of is_conflict: the item's text is not looked for in the answer
is_conflict_token_only(item, response) ==
    contains(response, str("CONFLICT:"))

\* resolve_conflicts line 315: the test made on each item
is_conflict(item, response) ==
    contains(response, str("CONFLICT:")) /\ contains(response, item.text)

\* the loop over items of resolve_conflicts (lines 311-318)
RECURSIVE resolve_loop(_, _, _, _)
resolve_loop(items, response, resolved, conflicts) ==
    IF items = <<>> THEN <<resolved, conflicts>>
    ELSE IF is_conflict(Head(items), response)
    THEN resolve_loop(Tail(items), response, resolved, Append(conflicts, Head(items)))
    ELSE resolve_loop(Tail(items), response, Append(resolved, Head(items)), conflicts)

\* resolve_conflicts, given the collaborator's answer (no request is made
\* when len(items) <= 1): <<resolved, conflicts>>
resolve_conflicts(items, response) ==
    IF Len(items) <= 1 THEN <<items, <<>>>>
    ELSE resolve_loop(items, response, <<>>, <<>>)

\* ------------------------------------------------------------------------
\* compiler.py: ClinicalCompiler, the stages of compile
\* ------------------------------------------------------------------------
empty_merged ==
    [active_problems |-> <<>>, medications |-> <<>>, investigations |-> <<>>,
     plans |-> <<>>, pending |-> <<>>, risks |-> <<>>, unclear |-> <<>>, events |-> <<>>]

\* Mutant of with_source: the fallback id of line 98 is used for every item
with_source_unknown(items, source_id) ==
    [i \in 1..Len(items) |-> [text |-> items[i].text, source_id |-> "unknown"]]

\* {**item, "source_id": source_id}
with_source(items, source_id) ==
    [i \in 1..Len(items) |-> [text |-> items[i].text, source_id |-> source_id]]

\* {**item, "source_id": source_id, "timestamp": doc.timestamp}
with_source_time(items, source_id, timestamp) ==
    [i \in 1..Len(items) |->
        [text |-> items[i].text, source_id |-> source_id, timestamp |-> timestamp]]

\* _merge_extractions: the loop over extractions.  compile sets "_document"
\* on every extraction (line 52), so source_id is doc.id.
RECURSIVE merge_loop(_, _)
merge_loop(extractions, merged_acc) ==
    IF extractions = <<>> THEN merged_acc
    ELSE LET extraction == Head(extractions)
             doc == extraction.document
             source_id == doc.id
         IN  merge_loop(Tail(extractions),
                 [merged_acc EXCEPT
                    !.active_problems =
                        @ \o with_source_time(extraction.active_problems, source_id, doc.timestamp),
                    !.pending = @ \o with_source(extraction.pending, source_id),
                    !.risks = @ \o with_source(extraction.risks, source_id),
                    !.unclear = @ \o with_source(extraction.unclear, source_id),
                    !.events =
                        @ \o with_source_time(extraction.plans, source_id, doc.timestamp)])

merge_extractions(extractions) == merge_loop(extractions, empty_merged)

\* _resolve_all_conflicts lines 148-155: pending items deduplicated on
\* item["text"].lower().strip()
RECURSIVE dedup_loop(_, _, _)
dedup_loop(items, seen_pending, unique_pending) ==
    IF items = <<>> THEN unique_pending
    ELSE LET item == Head(items)
             text_lower == strip(lower(item.text))
         IN  IF text_lower \notin seen_pending
             THEN dedup_loop(Tail(items), seen_pending \cup {text_lower},
                             Append(unique_pending, item))
             ELSE dedup_loop(Tail(items), seen_pending, unique_pending)

\* Mutant of resolve_all_conflicts: lines 148-155 stand inside the if of
\* line 140
resolve_all_conflicts_dedup_if_run(merged_arg, response) ==
    LET rc == resolve_conflicts(merged_arg.active_problems, response)
        run == Len(merged_arg.active_problems) > 1
    IN  <<[merged_arg EXCEPT
              !.active_problems = IF run THEN rc[1] ELSE @,
              !.pending = IF run THEN dedup_loop(@, {}, <<>>) ELSE @],
          IF run THEN rc[2] ELSE <<>>>>

\* _resolve_all_conflicts, given the collaborator's answer:
\* <<merged, all_conflicts>>
resolve_all_conflicts(merged_arg, response) ==
    LET rc == resolve_conflicts(merged_arg.active_problems, response)
        run == Len(merged_arg.active_problems) > 1
    IN  <<[merged_arg EXCEPT
              !.active_problems = IF run THEN rc[1] ELSE @,
              !.pending = dedup_loop(@, {}, <<>>)],
          IF run THEN rc[2] ELSE <<>>>>

\* _sort_by_urgency
urgency_keywords ==
    [high |-> <<str("urgent"), str("immediately"), str("asap"), str("stat"),
                str("emergency"), str("critical")>>,
     medium |-> <<str("soon"), str("today"), str("tomorrow"), str("priority"), str("important")>>]

get_urgency_score(item) ==
    LET text == lower(item.text)
    IN  IF contains_any(text, urgency_keywords.high) THEN 0
        ELSE IF contains_any(text, urgency_keywords.medium) THEN 1
        ELSE 2

\* sorted(items, key=get_urgency_score): Python's sort is stable; each item
\* goes behind the items already placed whose key is not larger
RECURSIVE sorted_loop(_, _)
sorted_loop(items, acc) ==
    IF items = <<>> THEN acc
    ELSE LET x == Head(items)
             n == Cardinality({i \in 1..Len(acc) :
                                 get_urgency_score(acc[i]) <= get_urgency_score(x)})
         IN  sorted_loop(Tail(items),
                         SubSeq(acc, 1, n) \o <<x>> \o SubSeq(acc, n + 1, Len(acc)))

\* Mutant of sort_by_urgency: items with equal keys come out in reverse order
sort_by_urgency_ties_reversed(items) ==
    LET place(i) ==
            Cardinality({j \in 1..Len(items) :
                            get_urgency_score(items[j]) < get_urgency_score(items[i])})
            + Cardinality({j \in i..Len(items) :
                            get_urgency_score(items[j]) = get_urgency_score(items[i])})
    IN  [k \in 1..Len(items) |-> items[CHOOSE i \in 1..Len(items) : place(i) = k]]

sort_by_urgency(items) == sorted_loop(items, <<>>)

\* Mutant of prioritize_for_mode: the discharge branch sorts the pending
\* items as well
prioritize_for_mode_discharge_sorts(data, mode_arg) ==
    IF mode_arg \in {"handover", "discharge"}
    THEN [data EXCEPT !.pending = sort_by_urgency(@)]
    ELSE data

\* _prioritize_for_mode
prioritize_for_mode(data, mode_arg) ==
    IF mode_arg = "handover"
    THEN [data EXCEPT !.pending = sort_by_urgency(@)]
    ELSE data

\* _assess_confidence
low_confidence_markers ==
    <<str("?"), str("possibly"), str("maybe"), str("unclear"), str("unsure"), str("query")>>
assess_confidence(item) ==
    IF contains_any(lower(item.text), low_confidence_markers) THEN "low" ELSE "high"

\* _detect_urgency
urgent_keywords == <<str("urgent"), str("immediately"), str("asap"), str("stat"), str("emergency")>>
soon_keywords == <<str("soon"), str("today"), str("tomorrow"), str("priority")>>
\* Mutant of detect_urgency: the soon keywords are looked for first
detect_urgency_soon_first(text) ==
    LET text_lower == lower(text)
    IN  IF contains_any(text_lower, soon_keywords) THEN "soon"
        ELSE IF contains_any(text_lower, urgent_keywords) THEN "urgent"
        ELSE "routine"

detect_urgency(text) ==
    LET text_lower == lower(text)
    IN  IF contains_any(text_lower, urgent_keywords) THEN "urgent"
        ELSE IF contains_any(text_lower, soon_keywords) THEN "soon"
        ELSE "routine"

\* _detect_severity
high_keywords ==
    <<str("critical"), str("severe"), str("life-threatening"), str("emergency"), str("urgent")>>
medium_keywords ==
    <<str("significant"), str("important"), str("warning"), str("caution"), str("monitor")>>
detect_severity(text) ==
    LET text_lower == lower(text)
    IN  IF contains_any(text_lower, high_keywords) THEN "high"
        ELSE IF contains_any(text_lower, medium_keywords) THEN "medium"
        ELSE "low"

\* _build_snapshot lines 207-210: {doc.id: "<source_type>: <filename or
\* 'unnamed'>"}; a later document with the same id replaces the entry
sources_of(documents_arg) ==
    [id \in {documents_arg[i].id : i \in 1..Len(documents_arg)} |->
        LET last == CHOOSE i \in 1..Len(documents_arg) :
                        /\ documents_arg[i].id = id
                        /\ \A j \in (i + 1)..Len(documents_arg) : documents_arg[j].id # id
        IN  [source_type |-> documents_arg[last].source_type,
             filename |-> IF documents_arg[last].filename = None THEN "unnamed"
                          ELSE documents_arg[last].filename]]

\* Mutant of input_document_count_of: the count is taken from the sources map
input_document_count_of_sources(documents_arg) ==
    Cardinality(DOMAIN sources_of(documents_arg))

\* _build_snapshot line 280: len(documents)
input_document_count_of(documents_arg) == Len(documents_arg)

\* _build_snapshot.  ExtractedItem.confidence defaults to "medium"
\* (models.py line 45) where the constructor call does not pass it.
build_snapshot(documents_arg, prioritized, conflicts_arg, current_status_arg, mode_arg) ==
    [input_document_count |-> input_document_count_of(documents_arg),
     mode |-> mode_arg,
     active_problems |->
        [i \in 1..Len(prioritized.active_problems) |->
            LET p == prioritized.active_problems[i]
            IN  [text |-> p.text, category |-> "problem", source_id |-> p.source_id,
                 source_excerpt |-> p.text, confidence |-> assess_confidence(p),
                 is_current |-> TRUE, timestamp |-> p.timestamp]],
     current_status |-> current_status_arg,
     key_events |->
        [i \in 1..Len(prioritized.events) |->
            LET e == prioritized.events[i]
            IN  [text |-> e.text, category |-> "event", source_id |-> e.source_id,
                 source_excerpt |-> e.text, confidence |-> "medium",
                 is_current |-> TRUE, timestamp |-> e.timestamp]],
     pending_tasks |->
        [i \in 1..Len(prioritized.pending) |->
            LET p == prioritized.pending[i]
            IN  [description |-> p.text, source_id |-> p.source_id,
                 source_excerpt |-> p.text, urgency |-> detect_urgency(p.text),
                 owner |-> None]],
     risks |->
        [i \in 1..Len(prioritized.risks) |->
            LET r == prioritized.risks[i]
            IN  [description |-> r.text, source_id |-> r.source_id,
                 source_excerpt |-> r.text, severity |-> detect_severity(r.text)]],
     unclear_items |->
        [i \in 1..Len(prioritized.unclear) |->
            LET u == prioritized.unclear[i]
            IN  [description |-> u.text, reason |-> "ambiguous",
                 source_ids |-> <<u.source_id>>, source_excerpts |-> <<u.text>>]]
        \o
        [i \in 1..Len(conflicts_arg) |->
            LET conflict == conflicts_arg[i]
            IN  [description |-> str("Conflicting information: ") \o conflict.text,
                 reason |-> "conflicting",
                 source_ids |-> <<conflict.source_id>>,
                 source_excerpts |-> <<conflict.text>>]],
     sources |-> sources_of(documents_arg)]

\* ------------------------------------------------------------------------
\* safety.py: the regular expressions, matched as re matches them
\* (leftmost match, greedy quantifiers, backtracking in priority order)
\* ------------------------------------------------------------------------
\* str.title(): a letter is upper-cased after a non-letter, lower-cased after a letter
title(s) ==
    [i \in 1..Len(s) |->
        IF i = 1 \/ s[i - 1] \notin DOMAIN lower_char
        THEN upper(<<s[i]>>)[1] ELSE lower(<<s[i]>>)[1]]

\* number of consecutive characters of a set from the 0-based offset i
run_in(s, i, chars) ==
    LET ks == {k \in (i + 1)..Len(s) : s[k] \notin chars}
    IN  IF i >= Len(s) THEN 0
        ELSE IF ks = {} THEN Len(s) - i
        ELSE (CHOOSE k \in ks : \A m \in ks : k <= m) - 1 - i

\* number of consecutive characters outside a set from the 0-based offset i
run_not_in(s, i, chars) ==
    LET ks == {k \in (i + 1)..Len(s) : s[k] \in chars}
    IN  IF i >= Len(s) THEN 0
        ELSE IF ks = {} THEN Len(s) - i
        ELSE (CHOOSE k \in ks : \A m \in ks : k <= m) - 1 - i

\* a re.Match: start(), end() and "group(1) if lastindex else group(0)"
NoMatch == [ok |-> FALSE, start |-> 0, end |-> 0, group |-> <<>>]
Match(a, b, g) == [ok |-> TRUE, start |-> a, end |-> b, group |-> g]

\* order in which the backtracking tries the quantifier counts: greedy first
lex_ge(x, y) ==
    \/ x[1] > y[1]
    \/ x[1] = y[1] /\ x[2] > y[2]
    \/ x[1] = y[1] /\ x[2] = y[2] /\ x[3] > y[3]
    \/ x[1] = y[1] /\ x[2] = y[2] /\ x[3] = y[3] /\ x[4] >= y[4]

\* the tail \s*(?:to)?:?\s*([^,.\n]+) of a pattern whose head ended at e
\* (lead_ws: the first \s* is there; to_opt: (?:to)? is there; colon_opt: :? is there)
capture_tail(s, start, e, lead_ws, to_opt, colon_opt) ==
    LET cands ==
            {x \in (0..(IF lead_ws THEN run_in(s, e, Whitespace) ELSE 0))
                   \X (0..(IF to_opt THEN 1 ELSE 0))
                   \X (0..(IF colon_opt THEN 1 ELSE 0))
                   \X (0..(Len(s) - e)) :
                /\ x[2] = 1 => matches_at(s, e + x[1], str("to"))
                /\ x[3] = 1 => matches_at(s, e + x[1] + 2 * x[2], str(":"))
                /\ x[4] <= run_in(s, e + x[1] + 2 * x[2] + x[3], Whitespace)
                /\ e + x[1] + 2 * x[2] + x[3] + x[4] < Len(s)
                /\ s[e + x[1] + 2 * x[2] + x[3] + x[4] + 1] \notin {",", ".", "\n"}}
    IN  IF cands = {} THEN NoMatch
        ELSE LET x == CHOOSE x \in cands : \A y \in cands : lex_ge(x, y)
                 q == e + x[1] + 2 * x[2] + x[3] + x[4]
                 g == q + run_not_in(s, q, {",", ".", "\n"})
             IN  Match(start, g, slice(s, q, g))

\* allerg(?:y|ies|ic)\s*(?:to)?:?\s*([^,.\n]+)
allergy_pattern_1(s, p) ==
    LET e == IF ~matches_at(s, p, str("allerg")) THEN -1
             ELSE IF matches_at(s, p + 6, str("y")) THEN p + 7
             ELSE IF matches_at(s, p + 6, str("ies")) THEN p + 9
             ELSE IF matches_at(s, p + 6, str("ic")) THEN p + 8
             ELSE -1
    IN  IF e = -1 THEN NoMatch ELSE capture_tail(s, p, e, TRUE, TRUE, TRUE)

\* nkda
allergy_pattern_2(s, p) ==
    IF matches_at(s, p, str("nkda")) THEN Match(p, p + 4, str("nkda")) ELSE NoMatch

\* allergies?:\s*([^,.\n]+)
allergy_pattern_3(s, p) ==
    LET e == IF ~matches_at(s, p, str("allergie")) THEN -1
             ELSE IF matches_at(s, p + 8, str("s") \o str(":")) THEN p + 10
             ELSE IF matches_at(s, p + 8, str(":")) THEN p + 9
             ELSE -1
    IN  IF e = -1 THEN NoMatch ELSE capture_tail(s, p, e, FALSE, FALSE, FALSE)

\* (dnar|dnacpr|not for resus|for resuscitation|full escalation|ceiling of care|for cpr)
resus_alternatives ==
    <<str("dnar"), str("dnacpr"), str("not for resus"), str("for resuscitation"),
      str("full escalation"), str("ceiling of care"), str("for cpr")>>

resus_pattern_1(s, p) ==
    LET ks == {k \in 1..Len(resus_alternatives) : matches_at(s, p, resus_alternatives[k])}
    IN  IF ks = {} THEN NoMatch
        ELSE LET k == CHOOSE k \in ks : \A m \in ks : k <= m
             IN  Match(p, p + Len(resus_alternatives[k]), resus_alternatives[k])

\* resus(?:citation)?\s*status:?\s*([^,.\n]+)
resus_pattern_2(s, p) ==
    LET e1 == IF ~matches_at(s, p, str("resus")) THEN -1
              ELSE IF matches_at(s, p + 5, str("citation")) THEN p + 13
              ELSE p + 5
        e2 == e1 + run_in(s, e1, Whitespace)
    IN  IF e1 = -1 \/ ~matches_at(s, e2, str("status")) THEN NoMatch
        ELSE capture_tail(s, p, e2 + 6, FALSE, FALSE, TRUE)
HIGH_RISK_MEDS ==
    <<str("warfarin"), str("heparin"), str("enoxaparin"), str("rivaroxaban"), str("apixaban"),
      str("dabigatran"), str("insulin"), str("metformin"), str("gliclazide"), str("glipizide"),
      str("morphine"), str("oxycodone"), str("fentanyl"), str("codeine"), str("tramadol"),
      str("digoxin"), str("amiodarone"), str("methotrexate"), str("chemotherapy"), str("lithium")>>
infection_terms ==
    <<str("mrsa"), str("c.diff"), str("c difficile"), str("vre"), str("esbl"), str("cpe"),
      str("covid"),
      str("tb "), str("tuberculosis"), str("isolation")>>
fall_terms ==
    <<str("fall risk"), str("falls risk"), str("high falls"), str("bed rails"),
      str("1:1 supervision"), str("mobility aid")>>
\* the ten lab_patterns of _check_critical_labs: the head before [:\s]+ ends
\* at the returned offset, -1 when the head does not match at p
lab_names ==
    <<"potassium", "potassium", "sodium", "sodium", "glucose",
      "haemoglobin", "haemoglobin", "platelets", "inr", "creatinine">>

lab_head(k, s, p) ==
    CASE k = 1 -> IF matches_at(s, p, str("potassium")) THEN p + 9 ELSE -1
      [] k = 2 -> IF ~matches_at(s, p, str("k")) THEN -1
                  ELSE IF matches_at(s, p + 1, str("+")) THEN p + 2 ELSE p + 1
      [] k = 3 -> IF matches_at(s, p, str("sodium")) THEN p + 6 ELSE -1
      [] k = 4 -> IF ~matches_at(s, p, str("na")) THEN -1
                  ELSE IF matches_at(s, p + 2, str("+")) THEN p + 3 ELSE p + 2
      [] k = 5 -> IF matches_at(s, p, str("glucose")) THEN p + 7 ELSE -1
      [] k = 6 -> IF matches_at(s, p, str("haemoglobin")) THEN p + 11
                  ELSE IF matches_at(s, p, str("h") \o str("moglobin")) THEN p + 9 ELSE -1
      [] k = 7 -> IF /\ matches_at(s, p, str("hb"))
                     /\ (p = 0 \/ s[p] \notin DOMAIN lower_char \cup Digits \cup {"_"})
                  THEN p + 2 ELSE -1
      [] k = 8 -> IF ~matches_at(s, p, str("platelet")) THEN -1
                  ELSE IF matches_at(s, p + 8, str("s")) THEN p + 9 ELSE p + 8
      [] k = 9 -> IF matches_at(s, p, str("inr")) THEN p + 3 ELSE -1
      [] k = 10 -> IF matches_at(s, p, str("creatinine")) THEN p + 10 ELSE -1

\* <head>[:\s]+(\d+\.?\d*)
lab_pattern(k, s, p) ==
    LET e == lab_head(k, s, p)
        n == run_in(s, e, ({":"} \cup Whitespace))
        d1 == run_in(s, e + n, Digits)
        dot == IF matches_at(s, e + n + d1, str(".")) THEN 1 ELSE 0
        d2 == IF dot = 1 THEN run_in(s, e + n + d1 + 1, Digits) ELSE 0
    IN  IF e = -1 \/ n = 0 \/ d1 = 0 THEN NoMatch
        ELSE Match(p, e + n + d1 + dot + d2, slice(s, e + n, e + n + d1 + dot + d2))

\* the compiled patterns
match_at(pat, s, p) ==
    CASE pat.kind = "allergy" /\ pat.index = 1 -> allergy_pattern_1(s, p)
      [] pat.kind = "allergy" /\ pat.index = 2 -> allergy_pattern_2(s, p)
      [] pat.kind = "allergy" /\ pat.index = 3 -> allergy_pattern_3(s, p)
      [] pat.kind = "resus" /\ pat.index = 1 -> resus_pattern_1(s, p)
      [] pat.kind = "resus" /\ pat.index = 2 -> resus_pattern_2(s, p)
      [] pat.kind = "lab" -> lab_pattern(pat.index, s, p)

\* re.finditer(pattern, s): the non-overlapping matches from offset p on
RECURSIVE finditer(_, _, _)
finditer(pat, s, p) ==
    LET starts == {q \in p..(Len(s) - 1) : match_at(pat, s, q).ok}
        m == match_at(pat, s, CHOOSE q \in starts : \A r \in starts : q <= r)
    IN  IF starts = {} THEN <<>> ELSE <<m>> \o finditer(pat, s, m.end)

\* float(match.group(1)) as a fraction num/den, den a power of ten
DigitChars == <<"0","1","2","3","4","5","6","7","8","9">>

RECURSIVE to_int(_)
to_int(ds) ==
    IF ds = <<>> THEN 0
    ELSE 10 * to_int(SubSeq(ds, 1, Len(ds) - 1))
         + (CHOOSE n \in 1..10 : DigitChars[n] = ds[Len(ds)]) - 1

\* float(g) of a matched group \d+\.?\d*, as the fraction num/den
float(g) ==
    LET parts == split_sep(g, ".")
        frac == IF Len(parts) > 1 THEN parts[2] ELSE <<>>
    IN  [num |-> to_int(parts[1] \o frac), den |-> 10 ^ Len(frac)]

\* str(float(g)) for the short decimals of a note: no leading zeros, no
\* trailing zeros, at least one digit on each side of the point
float_str(g) ==
    LET parts == split_sep(g, ".")
        ip == parts[1]
        fp == rstrip_chars(IF Len(parts) > 1 THEN parts[2] ELSE <<>>, {"0"})
        nz == {k \in 1..Len(ip) : ip[k] # "0"}
    IN  (IF nz = {} THEN <<"0">>
         ELSE SubSeq(ip, CHOOSE k \in nz : \A m \in nz : k <= m, Len(ip)))
        \o <<".">> \o (IF fp = <<>> THEN <<"0">> ELSE fp)

\* CRITICAL_LABS, the thresholds in tenths; <<>> is None
CRITICAL_LABS ==
    [potassium |-> [low |-> <<25>>, high |-> <<60>>],
     sodium |-> [low |-> <<1200>>, high |-> <<1600>>],
     glucose |-> [low |-> <<20>>, high |-> <<250>>],
     haemoglobin |-> [low |-> <<700>>, high |-> <<>>],
     platelets |-> [low |-> <<500>>, high |-> <<>>],
     inr |-> [low |-> <<>>, high |-> <<50>>],
     creatinine |-> [low |-> <<>>, high |-> <<4000>>]]

\* ------------------------------------------------------------------------
\* safety.py: SafetyChecker
\* ------------------------------------------------------------------------
SafetyAlert(category, description, severity, source_id, source_excerpt) ==
    [category |-> category, description |-> description, severity |-> severity,
     source_id |-> source_id, source_excerpt |-> source_excerpt]

\* text[max(0, a - margin):min(len(text), b + margin)].strip()
excerpt_of(text, a, b, margin) ==
    strip(slice(text,
                IF a - margin > 0 THEN a - margin ELSE 0,
                IF b + margin < Len(text) THEN b + margin ELSE Len(text)))

\* the exclusion of _check_allergies
allergy_excluded(allergy_text) ==
    contains(allergy_text, str("nkda")) \/ contains(allergy_text, str("no known"))

allergy_alerts_of(text, source_id, matches) ==
    LET kept == SelectSeq(matches, LAMBDA m : ~allergy_excluded(m.group))
    IN  [i \in 1..Len(kept) |->
            SafetyAlert("allergy", str("ALLERGY: ") \o title(strip(kept[i].group)),
                        "critical", source_id,
                        excerpt_of(text, kept[i].start, kept[i].end, 20))]

check_allergies(text, text_lower, source_id) ==
    concat_all([k \in 1..3 |->
        allergy_alerts_of(text, source_id,
                          finditer([kind |-> "allergy", index |-> k], text_lower, 0))])

\* severity of a resuscitation status
resus_severity(status) ==
    IF contains(status, str("dnar")) \/ contains(status, str("not for")) THEN "critical" ELSE "high"

resus_alerts_of(text, source_id, matches) ==
    [i \in 1..Len(matches) |->
        SafetyAlert("resus_status", str("RESUS STATUS: ") \o upper(matches[i].group),
                    resus_severity(matches[i].group), source_id,
                    excerpt_of(text, matches[i].start, matches[i].end, 10))]

check_resus_status(text, text_lower, source_id) ==
    concat_all([k \in 1..2 |->
        resus_alerts_of(text, source_id,
                        finditer([kind |-> "resus", index |-> k], text_lower, 0))])

\* thresholds.get("low") and value < thresholds["low"]
lab_is_low(k, m) ==
    LET low == CRITICAL_LABS[lab_names[k]].low
    IN  low # <<>> /\ float(m.group).num * 10 < low[1] * float(m.group).den

\* the high test with >= in place of >
lab_is_high_inclusive(k, m) ==
    LET high == CRITICAL_LABS[lab_names[k]].high
    IN  /\ ~lab_is_low(k, m)
        /\ high # <<>> /\ float(m.group).num * 10 >= high[1] * float(m.group).den

\* elif thresholds.get("high") and value > thresholds["high"]
lab_is_high(k, m) ==
    LET high == CRITICAL_LABS[lab_names[k]].high
    IN  /\ ~lab_is_low(k, m)
        /\ high # <<>> /\ float(m.group).num * 10 > high[1] * float(m.group).den

lab_alerts_of(text, source_id, k, matches) ==
    LET crit == SelectSeq(matches, LAMBDA m : lab_is_low(k, m) \/ lab_is_high(k, m))
    IN  [i \in 1..Len(crit) |->
            SafetyAlert("critical_result",
                        str("CRITICAL: ") \o title(str(lab_names[k])) \o str(" ")
                            \o float_str(crit[i].group) \o str(" ")
                            \o (IF lab_is_low(k, crit[i]) THEN <<"DOWN", "DOWN">>
                                ELSE <<"UP", "UP">>),
                        "critical", source_id,
                        excerpt_of(text, crit[i].start, crit[i].end, 10))]

check_critical_labs(text, text_lower, source_id) ==
    concat_all([k \in 1..10 |->
        lab_alerts_of(text, source_id, k,
                      finditer([kind |-> "lab", index |-> k], text_lower, 0))])

check_high_risk_meds(text, text_lower, source_id) ==
    LET found == SelectSeq(HIGH_RISK_MEDS, LAMBDA med : contains(text_lower, med))
    IN  [i \in 1..Len(found) |->
            SafetyAlert("high_risk_med", str("HIGH-RISK MED: ") \o title(found[i]),
                        "high", source_id,
                        excerpt_of(text, find(text_lower, found[i]),
                                   find(text_lower, found[i]) + Len(found[i]), 20))]

check_infection_control(text, text_lower, source_id) ==
    LET found == SelectSeq(infection_terms, LAMBDA term : contains(text_lower, term))
    IN  [i \in 1..Len(found) |->
            SafetyAlert("infection_control", str("INFECTION CONTROL: ") \o upper(found[i]),
                        "high", source_id,
                        excerpt_of(text, find(text_lower, found[i]),
                                   find(text_lower, found[i]) + Len(found[i]), 15))]

check_fall_risk(text, text_lower, source_id) ==
    LET found == SelectSeq(fall_terms, LAMBDA term : contains(text_lower, term))
    IN  IF found = <<>> THEN <<>>
        ELSE LET idx == find(text_lower, found[1])
                 excerpt == excerpt_of(text, idx, idx + Len(found[1]), 15)
             IN  <<SafetyAlert("fall_risk", str("FALL RISK: ") \o excerpt,
                               "medium", source_id, excerpt)>>

\* the six families in the order of check_text
family_alerts(k, text, source_id) ==
    CASE k = 1 -> check_allergies(text, lower(text), source_id)
      [] k = 2 -> check_resus_status(text, lower(text), source_id)
      [] k = 3 -> check_critical_labs(text, lower(text), source_id)
      [] k = 4 -> check_high_risk_meds(text, lower(text), source_id)
      [] k = 5 -> check_infection_control(text, lower(text), source_id)
      [] k = 6 -> check_fall_risk(text, lower(text), source_id)

check_text(text, source_id) ==
    concat_all([k \in 1..6 |-> family_alerts(k, text, source_id)])
\* ------------------------------------------------------------------------
\* Python values as json.loads builds them: a type tag and a value.  A dict
\* is the sequence of its items in insertion order.
\* ------------------------------------------------------------------------
py(type, value) == [type |-> type, value |-> value]

\* d[key] = value
dict_set(items, key, value) ==
    IF \E k \in 1..Len(items) : items[k].key = key
    THEN [k \in 1..Len(items) |->
            IF items[k].key = key THEN [key |-> key, value |-> value] ELSE items[k]]
    ELSE Append(items, [key |-> key, value |-> value])

\* d.get(key, default)
dict_get(d, key, default) ==
    IF \E k \in 1..Len(d.value) : d.value[k].key = key
    THEN d.value[CHOOSE k \in 1..Len(d.value) : d.value[k].key = key].value
    ELSE default

\* ------------------------------------------------------------------------
\* json.loads, for documents made of objects, arrays, strings without
\* escapes, non-negative integers, null, true and false; anything else is a
\* JSONDecodeError
\* ------------------------------------------------------------------------
JsonFail == [ok |-> FALSE, value |-> py("NoneType", <<>>), next |-> 0]
JsonOk(v, n) == [ok |-> TRUE, value |-> v, next |-> n]

skip_ws(s, i) == i + run_in(s, i, {" ", "\n", "\t"})

\* a string whose opening quote is at offset i
json_string(s, i) ==
    LET n == run_not_in(s, i + 1, {"\"", "\\", "\n", "\t"})
    IN  IF matches_at(s, i + 1 + n, <<"\"">>)
        THEN JsonOk(py("str", slice(s, i + 1, i + 1 + n)), i + n + 2)
        ELSE JsonFail

\* an integer whose first digit is at offset i: 0 or a digit 1-9 and digits
json_number(s, i) ==
    LET n == IF s[i + 1] = "0" THEN 1 ELSE run_in(s, i, Digits)
    IN  IF i + n < Len(s) /\ s[i + n + 1] \in Digits \cup {".", "e", "E"}
        THEN JsonFail
        ELSE JsonOk(py("int", to_int(slice(s, i, i + n))), i + n)

RECURSIVE json_value(_, _)
RECURSIVE json_members(_, _, _)
RECURSIVE json_elements(_, _, _)

\* the members of an object from offset i on, acc the items read so far
json_members(s, i, acc) ==
    LET key == json_string(s, i)
        c == skip_ws(s, key.next)
        v == json_value(s, c + 1)
        e == skip_ws(s, v.next)
        items == dict_set(acc, key.value.value, v.value)
    IN  IF ~matches_at(s, i, <<"\"">>) \/ ~key.ok THEN JsonFail
        ELSE IF ~matches_at(s, c, str(":")) \/ ~v.ok THEN JsonFail
        ELSE IF matches_at(s, e, <<"}">>) THEN JsonOk(py("dict", items), e + 1)
        ELSE IF matches_at(s, e, <<",">>) THEN json_members(s, skip_ws(s, e + 1), items)
        ELSE JsonFail

\* the elements of an array from offset i on, acc the elements read so far
json_elements(s, i, acc) ==
    LET v == json_value(s, i)
        e == skip_ws(s, v.next)
    IN  IF ~v.ok THEN JsonFail
        ELSE IF matches_at(s, e, <<"]">>) THEN JsonOk(py("list", Append(acc, v.value)), e + 1)
        ELSE IF matches_at(s, e, <<",">>) THEN json_elements(s, e + 1, Append(acc, v.value))
        ELSE JsonFail

json_value(s, i) ==
    LET j == skip_ws(s, i)
    IN  IF j >= Len(s) THEN JsonFail
        ELSE IF s[j + 1] = "{"
        THEN IF matches_at(s, skip_ws(s, j + 1), <<"}">>)
             THEN JsonOk(py("dict", <<>>), skip_ws(s, j + 1) + 1)
             ELSE json_members(s, skip_ws(s, j + 1), <<>>)
        ELSE IF s[j + 1] = "["
        THEN IF matches_at(s, skip_ws(s, j + 1), <<"]">>)
             THEN JsonOk(py("list", <<>>), skip_ws(s, j + 1) + 1)
             ELSE json_elements(s, j + 1, <<>>)
        ELSE IF s[j + 1] = "\"" THEN json_string(s, j)
        ELSE IF s[j + 1] \in Digits THEN json_number(s, j)
        ELSE IF matches_at(s, j, str("null")) THEN JsonOk(py("NoneType", <<>>), j + 4)
        ELSE IF matches_at(s, j, str("true")) THEN JsonOk(py("bool", TRUE), j + 4)
        ELSE IF matches_at(s, j, str("false")) THEN JsonOk(py("bool", FALSE), j + 5)
        ELSE JsonFail

\* json.loads(s): one value and nothing but whitespace after it
json_loads(s) ==
    LET r == json_value(s, 0)
    IN  IF r.ok /\ skip_ws(s, r.next) = Len(s) THEN r ELSE JsonFail
\* ------------------------------------------------------------------------
\* multipass.py: MultiPassExtractor
\* ------------------------------------------------------------------------
\* re.search(r'\{[\s\S]*\}', response): from the first "{" to the last "}"
json_match(response) ==
    LET opens == {k \in 1..Len(response) : response[k] = "{"}
        closes == {k \in 1..Len(response) : response[k] = "}"}
        a == CHOOSE k \in opens : \A m \in opens : k <= m
        b == CHOOSE k \in closes : \A m \in closes : k >= m
    IN  IF opens = {} \/ closes = {} THEN <<>>
        ELSE IF b < a THEN <<>>
        ELSE <<SubSeq(response, a, b)>>

\* the dict _pass1_extract returns when the response holds no JSON
empty_extractions ==
    py("dict", <<[key |-> str("problems"), value |-> py("list", <<>>)],
              [key |-> str("medications"), value |-> py("list", <<>>)],
              [key |-> str("pending_tasks"), value |-> py("list", <<>>)],
              [key |-> str("risks"), value |-> py("list", <<>>)],
              [key |-> str("unclear_items"), value |-> py("list", <<>>)]>>)

\* _pass1_extract after _generate answered
pass1_extract(response) ==
    IF json_match(response) # <<>> /\ json_loads(json_match(response)[1]).ok
    THEN json_loads(json_match(response)[1]).value
    ELSE empty_extractions

\* "for item in v": the items, or the TypeError of a value that is not iterable
iterate(v) ==
    CASE v.type = "list" -> [error |-> None, items |-> v.value]
      [] v.type = "dict" -> [error |-> None,
                             items |-> [k \in 1..Len(v.value) |-> py("str", v.value[k].key)]]
      [] v.type = "str" -> [error |-> None,
                            items |-> [k \in 1..Len(v.value) |-> py("str", <<v.value[k]>>)]]
      [] v.type \in {"NoneType", "int", "bool"} -> [error |-> "TypeError", items |-> <<>>]

\* the categories pass 2 flattens
flat_categories == <<str("problems"), str("medications"), str("pending_tasks"), str("risks")>>

\* the loop over one category (lines 208-214): item.get needs a dict
flatten_category(raw_extractions, category) ==
    LET it == iterate(dict_get(raw_extractions, category, py("list", <<>>)))
    IN  IF it.error # None THEN it
        ELSE IF \E k \in 1..Len(it.items) : it.items[k].type # "dict"
        THEN [error |-> "AttributeError", items |-> <<>>]
        ELSE [error |-> None,
              items |-> [k \in 1..Len(it.items) |->
                            [category |-> rstrip_chars(category, {"s"}),
                             text |-> dict_get(it.items[k], str("text"), py("str", <<>>)),
                             quote |-> dict_get(it.items[k], str("quote"), py("str", <<>>))]]]

\* lines 206-214: the first category that raises ends the loop
RECURSIVE flatten_from(_, _)
flatten_from(raw_extractions, k) ==
    IF k > Len(flat_categories) THEN [error |-> None, items |-> <<>>]
    ELSE LET head == flatten_category(raw_extractions, flat_categories[k])
             rest == flatten_from(raw_extractions, k + 1)
         IN  IF head.error # None THEN head
             ELSE IF rest.error # None THEN rest
             ELSE [error |-> None, items |-> head.items \o rest.items]

\* len(quote_words & doc_words) and max(len(quote_words), 1)
words(s) == Range(split(lower(s)))
overlap_num(quote, content) == Cardinality(words(quote) \cap words(content))
overlap_den(quote) == IF Cardinality(words(quote)) > 1 THEN Cardinality(words(quote)) ELSE 1

\* overlap > 0.7 and overlap > 0.4, in integers
overlap_at_least_07(quote, content) == 10 * overlap_num(quote, content) >= 7 * overlap_den(quote)

overlap_above_07(quote, content) == 10 * overlap_num(quote, content) > 7 * overlap_den(quote)

overlap_above_04(quote, content) == 10 * overlap_num(quote, content) > 4 * overlap_den(quote)

uncertainty_markers == <<str("?"), str("possibly"), str("likely"), str("unclear"), str("query")>>

\* a VerifiedExtraction; confidence in hundredths
VerifiedExtraction(category, text, confidence, source_id, source_excerpt, is_verified, note) ==
    [category |-> category, text |-> text, confidence |-> confidence,
     source_id |-> source_id, source_excerpt |-> source_excerpt,
     is_verified |-> is_verified, verification_note |-> note]

\* Mutant of verify_one: the markers are looked for in text, not text.lower()
verify_one_case_sensitive(document, ext) ==
    LET quote == ext.quote.value
        text == ext.text.value
        base == IF overlap_above_07(quote, document.content)
                THEN [confidence |-> 90, is_verified |-> TRUE, note |-> <<>>]
                ELSE IF overlap_above_04(quote, document.content)
                THEN [confidence |-> 70, is_verified |-> TRUE, note |-> str("Partial quote match")]
                ELSE [confidence |-> 40, is_verified |-> FALSE,
                      note |-> str("Quote not found in source")]
        marked == contains_any(text, uncertainty_markers)
    IN  VerifiedExtraction(ext.category, text,
                           IF marked THEN (base.confidence * 8) \div 10 ELSE base.confidence,
                           document.id,
                           IF quote # <<>> THEN slice(quote, 0, 200) ELSE slice(text, 0, 200),
                           base.is_verified,
                           IF marked THEN str("Contains uncertainty marker") ELSE base.note)

\* lines 220-256 for one flattened extraction whose quote and text are str
verify_one(document, ext) ==
    LET quote == ext.quote.value
        text == ext.text.value
        base == IF overlap_above_07(quote, document.content)
                THEN [confidence |-> 90, is_verified |-> TRUE, note |-> <<>>]
                ELSE IF overlap_above_04(quote, document.content)
                THEN [confidence |-> 70, is_verified |-> TRUE, note |-> str("Partial quote match")]
                ELSE [confidence |-> 40, is_verified |-> FALSE,
                      note |-> str("Quote not found in source")]
        marked == contains_any(lower(text), uncertainty_markers)
    IN  VerifiedExtraction(ext.category, text,
                           IF marked THEN (base.confidence * 8) \div 10 ELSE base.confidence,
                           document.id,
                           \* quote[:200] if quote else text[:200]
                           IF quote # <<>> THEN slice(quote, 0, 200) ELSE slice(text, 0, 200),
                           base.is_verified,
                           IF marked THEN str("Contains uncertainty marker") ELSE base.note)

\* str(v) inside an f-string
RECURSIVE int_str(_)
int_str(n) ==
    IF n < 10 THEN <<DigitChars[n + 1]>>
    ELSE int_str(n \div 10) \o <<DigitChars[(n % 10) + 1]>>

format(v) ==
    CASE v.type = "str" -> v.value
      [] v.type = "NoneType" -> str("None")
      [] v.type = "bool" -> IF v.value THEN str("True") ELSE str("False")
      [] v.type = "int" -> int_str(v.value)

\* lines 259-268: the unclear items
unclear_of(document, raw_extractions) ==
    LET it == iterate(dict_get(raw_extractions, str("unclear_items"), py("list", <<>>)))
    IN  IF it.error # None THEN it
        ELSE IF \E k \in 1..Len(it.items) : it.items[k].type # "dict"
        THEN [error |-> "AttributeError", items |-> <<>>]
        ELSE [error |-> None,
              items |-> [k \in 1..Len(it.items) |->
                  VerifiedExtraction(str("unclear"),
                      dict_get(it.items[k], str("text"), py("str", <<>>)).value,
                      30, document.id, <<>>, TRUE,
                      str("Flagged as unclear: ")
                          \o format(dict_get(it.items[k], str("reason"),
                                              py("str", str("unknown")))))]]

\* _pass2_verify: the verified list, or the exception that leaves it
pass2_verify(document, raw_extractions) ==
    LET flat == flatten_from(raw_extractions, 1)
        unclear == unclear_of(document, raw_extractions)
    IN  IF flat.error # None THEN flat
        ELSE IF flat.items = <<>> THEN [error |-> None, items |-> <<>>]
        ELSE IF \E k \in 1..Len(flat.items) :
                    flat.items[k].quote.type # "str" \/ flat.items[k].text.type # "str"
        THEN [error |-> "AttributeError", items |-> <<>>]
        ELSE IF unclear.error # None THEN unclear
        ELSE [error |-> None,
              items |-> [k \in 1..Len(flat.items) |-> verify_one(document, flat.items[k])]
                        \o unclear.items]

\* Mutant of missing_mandatory_of: resuscitation status is asked of every
\* source type
missing_mandatory_any_type(document) ==
    (IF contains_any(lower(document.content),
                     <<str("allerg"), str("nkda"), str("no known drug")>>) THEN <<>>
     ELSE <<str("Allergy status not documented")>>)
    \o (IF ~contains_any(lower(document.content),
                          <<str("dnar"), str("dnacpr"), str("resus"), str("escalation"),
                            str("ceiling"), str("for cpr")>>)
        THEN <<str("Resuscitation status not documented")>> ELSE <<>>)

\* Mutant of missing_mandatory_of: the terms are looked for in the content
\* as written, not in content.lower()
missing_mandatory_case_sensitive(document) ==
    (IF contains_any(document.content,
                     <<str("allerg"), str("nkda"), str("no known drug")>>) THEN <<>>
     ELSE <<str("Allergy status not documented")>>)
    \o (IF ~contains_any(document.content,
                          <<str("dnar"), str("dnacpr"), str("resus"), str("escalation"),
                            str("ceiling"), str("for cpr")>>)
           /\ document.source_type \in {"typed_note", "handwritten"}
        THEN <<str("Resuscitation status not documented")>> ELSE <<>>)

\* _pass3_safety_check: no further alert, and the mandatory items not documented
missing_mandatory_of(document) ==
    (IF contains_any(lower(document.content),
                     <<str("allerg"), str("nkda"), str("no known drug")>>) THEN <<>>
     ELSE <<str("Allergy status not documented")>>)
    \o (IF ~contains_any(lower(document.content),
                          <<str("dnar"), str("dnacpr"), str("resus"), str("escalation"),
                            str("ceiling"), str("for cpr")>>)
           /\ document.source_type \in {"typed_note", "handwritten"}
        THEN <<str("Resuscitation status not documented")>> ELSE <<>>)

missed_alerts_rechecked(document, current_result) == check_text(document.content, document.id)

missed_alerts_of(document, current_result) == <<>>
\* ------------------------------------------------------------------------
\* Documents for the safety checker: an allergy statement, a resuscitation
\* statement and a lab statement (each possibly absent), in any order,
\* joined by a separator
\* ------------------------------------------------------------------------

\* statements that no allergy is known
NoAllergyStatements ==
    {str("NKDA"), str("No known drug allergies"), str("Allergies: NKDA"),
     str("Allergies: no known drug allergies"), str("Allergy status NKDA")}

\* statements that limit resuscitation
ResusLimitations ==
    {str("DNAR in notes"), str("DNACPR in place"), str("Not for resuscitation"),
     str("Resus status: DNAR")}

\* statements of one out-of-range value of one lab
CriticalLabStatements ==
    {str("Potassium: 7.2"), str("K+ 7.2"), str("Na 118"), str("Hb: 65"), str("INR 6.5"),
     str("Glucose: 1.50")}

\* sep.join(parts) over the parts that are not empty
RECURSIVE join(_, _)
join(parts, sep) ==
    IF parts = <<>> THEN <<>>
    ELSE IF Head(parts) = <<>> THEN join(Tail(parts), sep)
    ELSE IF join(Tail(parts), sep) = <<>> THEN Head(parts)
    ELSE Head(parts) \o sep \o join(Tail(parts), sep)

\* ------------------------------------------------------------------------
\* Documents and pass-1 answers for the multi-pass extractor
\* ------------------------------------------------------------------------

ExtractDocs ==
    {[id |-> "d1", source_type |-> "typed_note",
      content |-> str("Chest pain on exertion since Monday improving with GTN spray. ")
                      \o str("Potassium: 7.2, NKDA, DNAR in notes"),
      timestamp |-> "t1", filename |-> "ward.txt"],
     [id |-> "d2", source_type |-> "lab_result", content |-> str("Hb: 65. Warfarin held"),
      timestamp |-> None, filename |-> None],
     [id |-> "d3", source_type |-> "handwritten",
      content |-> str("Reviewed on ward round, comfortable"),
      timestamp |-> None, filename |-> None],
     [id |-> "d4", source_type |-> "typed_note",
      content |-> str("Allergic to penicillin. Bloods sent"),
      timestamp |-> None, filename |-> None],
     [id |-> "d5", source_type |-> "clinic_letter",
      content |-> str("For CPR. Reviewed in clinic"),
      timestamp |-> None, filename |-> None],
     [id |-> "d6", source_type |-> "handwritten",
      content |-> str("Full escalation, comfortable"),
      timestamp |-> None, filename |-> None],
     [id |-> "d7", source_type |-> "discharge_summary",
      content |-> str("No known drug allergies"),
      timestamp |-> None, filename |-> None]}

QuotePool ==
    {str("chest pain on exertion"), str("Chest pain on arrival"),
     str("chest pain on exertion since monday improving after rest today"),
     str("chest tightness"), str("chest pain radiating to arm"),
     str("abdominal tenderness"), str("pain PAIN pain"), <<>>}

\* {"<category>": [{"text": "<text>", "quote": "<quote>"}]}
resp_one(category, text, quote) ==
    str("{\"") \o category \o str("\": [{\"text\": \"") \o text
        \o str("\", \"quote\": \"") \o quote \o str("\"}]}")

\* {"problems": [{"text": .., "quote": "<q1>"}, {"text": .., "quote": "<q2>"}]}
resp_two(text, q1, q2) ==
    str("{\"problems\": [{\"text\": \"") \o text \o str("\", \"quote\": \"") \o q1
        \o str("\"}, {\"text\": \"") \o text \o str("\", \"quote\": \"") \o q2
        \o str("\"}]}")

\* answers that hold well-shaped candidates
ShapedResponses ==
    {resp_one(flat_categories[k], t, q) :
        k \in 1..4, t \in {str("Chest pain"), str("?ACS"), str("Possibly PE")}, q \in QuotePool}
    \cup {resp_two(str("Chest pain"), q1, q2) : q1 \in QuotePool, q2 \in QuotePool}

\* answers that are empty, not structured, structurally invalid, or of the
\* wrong shape
OddResponses ==
    {str(""), str("I cannot help with that."), str("{\"problems\": ["),
     str("{\"problems\": []} see also }"),
     str("Here is the JSON:\n{\"problems\": []}\nDone."),
     str("Result: {\"risks\": [{\"text\": \"Falls\", \"quote\": \"comfortable\"}]} end"),
     str("{\"risks\": [{\"text\": \"Falls\", \"quote\": \"comfortable\"}]} {\"risks\": []}"),
     str("{\"risks\": [{\"text\": \"Falls\", \"quote\": \"comfortable\"}]} (as {above})"),
     str("{}"), str("{\"medications\": []}"), str("{\"problems\": null}"),
     str("{\"risks\": 5}"), str("{\"problems\": \"none\"}"),
     str("{\"problems\": [\"Chest pain\"]}"),
     str("{\"risks\": [{\"text\": \"Falls\", \"quote\": null}]}"),
     str("{\"unclear_items\": [{\"text\": \"Dose unclear\", \"reason\": \"illegible\"}]}"),
     str("{\"problems\": [{\"text\": \"Chest pain\", \"quote\": \"chest pain\"}], ")
        \o str("\"unclear_items\": [{\"text\": \"Dose\"}]}")}

\* how many times extract runs on the document
MaxRuns == 2

\* ------------------------------------------------------------------------
\* State
\* ------------------------------------------------------------------------
\* Threads that call compile on the one ClinicalCompiler instance
Callers == {1, 2}
\* The callers that act when calls are made one after another
SeqCallers == {1}

VARIABLES
    extracted_data,   \* self._extracted_data of the ClinicalCompiler
    pc,               \* per caller: the stage of compile it is about to run
    documents,        \* per caller: compile's documents argument
    mode,             \* per caller: compile's mode argument
    doc_index,        \* per caller: position of the loop "for doc in documents"
    merged,           \* per caller: the dict returned by _merge_extractions
                      \*   (resolved and prioritized are the same object)
    conflicts,        \* per caller: the conflicts of _resolve_all_conflicts
    current_status,   \* per caller: the answer of synthesize_status
    outcome,          \* per caller: <<snapshot>> once compile returned, else <<>>
    error,            \* per caller: the exception compile raised, else None
    gen_log,          \* history, per caller: the requests made to generate and its
                      \*   answers (for an extraction also what
                      \*   extract_clinical_info returned) since compile last
                      \*   passed its input check
    calls_made,       \* number of compile calls started on the instance
    call_id,          \* history, per caller: which call (1, 2, ...) it last began
    leftover,         \* history, per caller: self._extracted_data was not empty
                      \*   when its last call began
    checker_parts,    \* the statements the checked text was put together from
    checker_text,     \* check_text's text argument
    checker_source_id, \* check_text's source_id argument
    checker_pc,       \* check_text: the family it checks next, 7 once returned
    checker_alerts,   \* check_text's alerts list
    mp_document,      \* extract's document argument
    mp_pc,            \* extract: the pass it is about to run
    mp_result,        \* extract's ExtractionResult
    mp_response,      \* history: what _generate answered in pass 1 of this run
    mp_raw_extractions, \* extract's raw_extractions
    mp_error,         \* the exception that left extract, else None
    mp_runs,          \* number of extract runs started on the document
    mp_first_alerts,  \* history: the safety alerts of the first run
    mp_gen_calls      \* history: the _generate calls made in this run

compile_vars == <<extracted_data, pc, documents, mode, doc_index, merged, conflicts,
                  current_status, outcome, error, gen_log, calls_made, call_id, leftover>>
checker_vars == <<checker_parts, checker_text, checker_source_id, checker_pc, checker_alerts>>
mp_vars == <<mp_document, mp_pc, mp_result, mp_response, mp_raw_extractions, mp_error,
             mp_runs, mp_first_alerts, mp_gen_calls>>
vars == <<compile_vars, checker_vars, mp_vars>>

\* ClinicalCompiler.__init__ (lines 24-26); no compile call is running
compiler_constructed ==
    /\ extracted_data = <<>>
    /\ pc = [c \in Callers |-> "idle"]
    /\ documents = [c \in Callers |-> <<>>]
    /\ mode = [c \in Callers |-> "general"]
    /\ doc_index = [c \in Callers |-> 0]
    /\ merged = [c \in Callers |-> empty_merged]
    /\ conflicts = [c \in Callers |-> <<>>]
    /\ current_status = [c \in Callers |-> <<>>]
    /\ outcome = [c \in Callers |-> <<>>]
    /\ error = [c \in Callers |-> None]
    /\ gen_log = [c \in Callers |-> <<>>]
    /\ calls_made = 0
    /\ call_id = [c \in Callers |-> 0]
    /\ leftover = [c \in Callers |-> FALSE]

\* no check_text call has been made
checker_unused ==
    /\ checker_parts = <<>>
    /\ checker_text = <<>>
    /\ checker_source_id = None
    /\ checker_pc = 0
    /\ checker_alerts = <<>>

\* no extract call has been made
extractor_unused ==
    /\ mp_document = <<>>
    /\ mp_pc = "unused"
    /\ mp_result = <<>>
    /\ mp_response = <<>>
    /\ mp_raw_extractions = <<>>
    /\ mp_error = None
    /\ mp_runs = 0
    /\ mp_first_alerts = <<>>
    /\ mp_gen_calls = 0

Init == compiler_constructed /\ checker_unused /\ extractor_unused

\* ------------------------------------------------------------------------
\* compile (compiler.py lines 28-81), one action per stage
\* ------------------------------------------------------------------------
\* Mutant of compile_begin: self._extracted_data is reset before the input
\* check
compile_begin_reset_first(c, docs_arg, mode_arg) ==
    /\ UNCHANGED <<checker_vars, mp_vars>>
    /\ pc[c] \in {"idle", "done", "failed"}
    /\ calls_made < MaxCalls
    /\ calls_made' = calls_made + 1
    /\ call_id' = [call_id EXCEPT ![c] = calls_made + 1]
    /\ leftover' = [leftover EXCEPT ![c] = (extracted_data # <<>>)]
    /\ documents' = [documents EXCEPT ![c] = docs_arg]
    /\ mode' = [mode EXCEPT ![c] = mode_arg]
    /\ outcome' = [outcome EXCEPT ![c] = <<>>]
    /\ merged' = [merged EXCEPT ![c] = empty_merged]
    /\ conflicts' = [conflicts EXCEPT ![c] = <<>>]
    /\ current_status' = [current_status EXCEPT ![c] = <<>>]
    /\ extracted_data' = <<>>
    /\ IF docs_arg = <<>>
       THEN /\ pc' = [pc EXCEPT ![c] = "failed"]
            /\ error' = [error EXCEPT ![c] = "ValueError"]
            /\ doc_index' = [doc_index EXCEPT ![c] = 0]
            /\ UNCHANGED gen_log
       ELSE /\ pc' = [pc EXCEPT ![c] = "extract"]
            /\ error' = [error EXCEPT ![c] = None]
            /\ doc_index' = [doc_index EXCEPT ![c] = 1]
            /\ gen_log' = [gen_log EXCEPT ![c] = <<>>]

\* Mutant of compile_begin: line 48 is missing, the extractions of earlier
\* calls stay in self._extracted_data
compile_begin_no_reset(c, docs_arg, mode_arg) ==
    /\ UNCHANGED <<checker_vars, mp_vars>>
    /\ pc[c] \in {"idle", "done", "failed"}
    /\ calls_made < MaxCalls
    /\ calls_made' = calls_made + 1
    /\ call_id' = [call_id EXCEPT ![c] = calls_made + 1]
    /\ leftover' = [leftover EXCEPT ![c] = (extracted_data # <<>>)]
    /\ documents' = [documents EXCEPT ![c] = docs_arg]
    /\ mode' = [mode EXCEPT ![c] = mode_arg]
    /\ outcome' = [outcome EXCEPT ![c] = <<>>]
    /\ merged' = [merged EXCEPT ![c] = empty_merged]
    /\ conflicts' = [conflicts EXCEPT ![c] = <<>>]
    /\ current_status' = [current_status EXCEPT ![c] = <<>>]
    /\ UNCHANGED extracted_data
    /\ IF docs_arg = <<>>
       THEN /\ pc' = [pc EXCEPT ![c] = "failed"]
            /\ error' = [error EXCEPT ![c] = "ValueError"]
            /\ doc_index' = [doc_index EXCEPT ![c] = 0]
            /\ UNCHANGED gen_log
       ELSE /\ pc' = [pc EXCEPT ![c] = "extract"]
            /\ error' = [error EXCEPT ![c] = None]
            /\ doc_index' = [doc_index EXCEPT ![c] = 1]
            /\ gen_log' = [gen_log EXCEPT ![c] = <<>>]

\* lines 43-48: the input check, then self._extracted_data = []
compile_begin(c, docs_arg, mode_arg) ==
    /\ UNCHANGED <<checker_vars, mp_vars>>
    /\ pc[c] \in {"idle", "done", "failed"}
    /\ calls_made < MaxCalls
    /\ calls_made' = calls_made + 1
    /\ call_id' = [call_id EXCEPT ![c] = calls_made + 1]
    /\ leftover' = [leftover EXCEPT ![c] = (extracted_data # <<>>)]
    /\ documents' = [documents EXCEPT ![c] = docs_arg]
    /\ mode' = [mode EXCEPT ![c] = mode_arg]
    /\ outcome' = [outcome EXCEPT ![c] = <<>>]
    /\ merged' = [merged EXCEPT ![c] = empty_merged]
    /\ conflicts' = [conflicts EXCEPT ![c] = <<>>]
    /\ current_status' = [current_status EXCEPT ![c] = <<>>]
    /\ IF docs_arg = <<>>
       THEN /\ pc' = [pc EXCEPT ![c] = "failed"]
            /\ error' = [error EXCEPT ![c] = "ValueError"]
            /\ doc_index' = [doc_index EXCEPT ![c] = 0]
            /\ UNCHANGED <<extracted_data, gen_log>>
       ELSE /\ extracted_data' = <<>>
            /\ pc' = [pc EXCEPT ![c] = "extract"]
            /\ error' = [error EXCEPT ![c] = None]
            /\ doc_index' = [doc_index EXCEPT ![c] = 1]
            /\ gen_log' = [gen_log EXCEPT ![c] = <<>>]

\* lines 49-53: one round of the loop; the collaborator answers
compile_extract(c, response) ==
    /\ UNCHANGED <<checker_vars, mp_vars>>
    /\ pc[c] = "extract"
    /\ LET doc == documents[c][doc_index[c]]
           extracted == extract_clinical_info(doc, response)
       IN  /\ extracted_data' = Append(extracted_data,
                  [active_problems |-> extracted.active_problems,
                   historical_problems |-> extracted.historical_problems,
                   medications |-> extracted.medications,
                   investigations |-> extracted.investigations,
                   plans |-> extracted.plans,
                   pending |-> extracted.pending,
                   risks |-> extracted.risks,
                   unclear |-> extracted.unclear,
                   document |-> doc])
           /\ gen_log' = [gen_log EXCEPT ![c] =
                  Append(@, [request |-> extract_request(doc), response |-> response,
                             result |-> extracted])]
    /\ doc_index' = [doc_index EXCEPT ![c] = @ + 1]
    /\ pc' = [pc EXCEPT ![c] = IF doc_index[c] = Len(documents[c]) THEN "merge" ELSE "extract"]
    /\ UNCHANGED <<documents, mode, merged, conflicts, current_status, outcome, error,
                   calls_made, call_id, leftover>>

\* Mutant of compile_extract_raises: the failure is noted and the loop goes
\* on with the next document
compile_extract_skips_failed(c) ==
    /\ UNCHANGED <<checker_vars, mp_vars>>
    /\ pc[c] = "extract"
    /\ pc' = [pc EXCEPT ![c] = IF doc_index[c] = Len(documents[c]) THEN "merge" ELSE "extract"]
    /\ doc_index' = [doc_index EXCEPT ![c] = @ + 1]
    /\ error' = [error EXCEPT ![c] = "GenerationError"]
    /\ UNCHANGED <<extracted_data, documents, mode, merged, conflicts,
                   current_status, outcome, gen_log, calls_made, call_id, leftover>>

\* line 51: generate raises inside extract_clinical_info; compile has no
\* handler, the exception reaches the caller
compile_extract_raises(c) ==
    /\ UNCHANGED <<checker_vars, mp_vars>>
    /\ pc[c] = "extract"
    /\ pc' = [pc EXCEPT ![c] = "failed"]
    /\ error' = [error EXCEPT ![c] = "GenerationError"]
    /\ UNCHANGED <<extracted_data, documents, mode, doc_index, merged, conflicts,
                   current_status, outcome, gen_log, calls_made, call_id, leftover>>

\* line 57
compile_merge(c) ==
    /\ UNCHANGED <<checker_vars, mp_vars>>
    /\ pc[c] = "merge"
    /\ merged' = [merged EXCEPT ![c] = merge_extractions(extracted_data)]
    /\ pc' = [pc EXCEPT ![c] = "resolve"]
    /\ UNCHANGED <<extracted_data, documents, mode, doc_index, conflicts, current_status,
                   outcome, error, gen_log, calls_made, call_id, leftover>>

\* Mutant of compile_resolve: the conflict-resolution request is made
\* whatever the number of merged active problems
compile_resolve_always_asks(c, response) ==
    /\ UNCHANGED <<checker_vars, mp_vars>>
    /\ pc[c] = "resolve"
    /\ LET r == resolve_all_conflicts(merged[c], response)
       IN  /\ merged' = [merged EXCEPT ![c] = r[1]]
           /\ conflicts' = [conflicts EXCEPT ![c] = r[2]]
           /\ gen_log' = [gen_log EXCEPT ![c] =
                  Append(@, [request |-> resolve_request(merged[c].active_problems,
                                                        "active problems"),
                             response |-> response])]
    /\ pc' = [pc EXCEPT ![c] = "prioritize"]
    /\ UNCHANGED <<extracted_data, documents, mode, doc_index, current_status, outcome,
                   error, calls_made, call_id, leftover>>

\* line 61: _resolve_all_conflicts; generate is called only when more than
\* one active problem was merged
compile_resolve(c, response) ==
    /\ UNCHANGED <<checker_vars, mp_vars>>
    /\ pc[c] = "resolve"
    /\ LET run == Len(merged[c].active_problems) > 1
           r == resolve_all_conflicts(merged[c], response)
       IN  /\ merged' = [merged EXCEPT ![c] = r[1]]
           /\ conflicts' = [conflicts EXCEPT ![c] = r[2]]
           /\ gen_log' = [gen_log EXCEPT ![c] =
                  IF run
                  THEN Append(@, [request |-> resolve_request(merged[c].active_problems,
                                                               "active problems"),
                                  response |-> response])
                  ELSE @]
    /\ pc' = [pc EXCEPT ![c] = "prioritize"]
    /\ UNCHANGED <<extracted_data, documents, mode, doc_index, current_status, outcome,
                   error, calls_made, call_id, leftover>>

\* line 65
compile_prioritize(c) ==
    /\ UNCHANGED <<checker_vars, mp_vars>>
    /\ pc[c] = "prioritize"
    /\ merged' = [merged EXCEPT ![c] = prioritize_for_mode(@, mode[c])]
    /\ pc' = [pc EXCEPT ![c] = "synthesize"]
    /\ UNCHANGED <<extracted_data, documents, mode, doc_index, conflicts, current_status,
                   outcome, error, gen_log, calls_made, call_id, leftover>>

\* line 69: synthesize_status(documents, self._extracted_data)
compile_synthesize(c, response) ==
    /\ UNCHANGED <<checker_vars, mp_vars>>
    /\ pc[c] = "synthesize"
    /\ current_status' = [current_status EXCEPT ![c] = response]
    /\ gen_log' = [gen_log EXCEPT ![c] =
           Append(@, [request |-> synthesize_request(extracted_data),
                      response |-> response])]
    /\ pc' = [pc EXCEPT ![c] = "build"]
    /\ UNCHANGED <<extracted_data, documents, mode, doc_index, merged, conflicts, outcome,
                   error, calls_made, call_id, leftover>>

\* lines 73-81
compile_build(c) ==
    /\ UNCHANGED <<checker_vars, mp_vars>>
    /\ pc[c] = "build"
    /\ outcome' = [outcome EXCEPT ![c] =
           <<build_snapshot(documents[c], merged[c], conflicts[c], current_status[c],
                            mode[c])>>]
    /\ pc' = [pc EXCEPT ![c] = "done"]
    /\ UNCHANGED <<extracted_data, documents, mode, doc_index, merged, conflicts,
                   current_status, error, gen_log, calls_made, call_id, leftover>>

\* Calls made one after another on the same instance: a call begins when no
\* compile call is running
Next ==
    \/ \E c \in SeqCallers, d \in DocLists, m \in Modes :
            /\ \A other \in Callers : pc[other] \in {"idle", "done", "failed"}
            /\ compile_begin(c, d, m)
    \/ \E c \in SeqCallers, r \in ExtractResponses : compile_extract(c, r)
    \/ \E c \in SeqCallers : compile_extract_raises(c)
    \/ \E c \in SeqCallers : compile_merge(c)
    \/ \E c \in SeqCallers :
            IF Len(merged[c].active_problems) > 1
            THEN \E r \in ConflictResponses : compile_resolve(c, r)
            ELSE compile_resolve(c, <<>>)
    \/ \E c \in SeqCallers : compile_prioritize(c)
    \/ \E c \in SeqCallers, r \in StatusResponses : compile_synthesize(c, r)
    \/ \E c \in SeqCallers : compile_build(c)

Spec == Init /\ [][Next]_vars

\* Calls that overlap on the same instance: each caller is a thread that runs
\* compile on one document; a thread is switched out between two stages, and
\* a call begins whatever the other thread is doing
ConcurrentNext ==
    \/ \E c \in Callers, d \in {l \in DocLists : Len(l) = 1} :
            compile_begin(c, d, "handover")
    \/ \E c \in Callers, r \in ExtractResponses : compile_extract(c, r)
    \/ \E c \in Callers : compile_merge(c)
    \/ \E c \in Callers :
            IF Len(merged[c].active_problems) > 1
            THEN \E r \in ConflictResponses : compile_resolve(c, r)
            ELSE compile_resolve(c, <<>>)
    \/ \E c \in Callers : compile_prioritize(c)
    \/ \E c \in Callers : compile_synthesize(c, str("Stable."))
    \/ \E c \in Callers : compile_build(c)

SpecConcurrent == Init /\ [][ConcurrentNext]_vars

\* ------------------------------------------------------------------------
\* SafetyChecker.check_text (safety.py lines 55-78) on one text, one action
\* per family
\* ------------------------------------------------------------------------
\* check_text is called on a text: its statements, their order and the
\* separator
SafetyInit ==
    /\ compiler_constructed
    /\ extractor_unused
    /\ checker_parts \in (NoAllergyStatements \cup {str("Allergic to penicillin"), <<>>})
                            \X (ResusLimitations \cup {str("For CPR"), <<>>})
                            \X (CriticalLabStatements
                                \cup {str("Potassium: 4.1"), str("Potassium: 2.5"),
                                      str("Potassium 6.0"), str("K 2.4"), str("Na+ 120"),
                                      str("Sodium: 160"), str("Sodium 161"),
                                      str("Glucose 5.5"), str("Glucose: 25.1"),
                                      str("Haemoglobin: 70"), str("Hb 200"),
                                      str("Platelets: 49"), str("Platelet 600"),
                                      str("INR 5.0"), str("INR: 1"),
                                      str("Creatinine 400"), str("Creatinine: 401"),
                                      str("Creatinine 20"), <<>>})
    /\ \E order \in {o \in [1..3 -> 1..3] : \A i, j \in 1..3 : o[i] = o[j] => i = j},
          sep \in {str(", "), str("\n")} :
            checker_text = join([i \in 1..3 |-> checker_parts[order[i]]], sep)
    /\ checker_source_id \in {"d1", "d2"}
    /\ checker_pc = 1
    /\ checker_alerts = <<>>

\* alerts.extend(self._check_<family>(text, text_lower, source_id))
check_family(k) ==
    /\ checker_pc = k
    /\ checker_alerts' = checker_alerts \o family_alerts(k, checker_text, checker_source_id)
    /\ checker_pc' = k + 1
    /\ UNCHANGED <<checker_parts, checker_text, checker_source_id, compile_vars, mp_vars>>

SafetyNext == \E k \in 1..6 : check_family(k)

SpecSafety == SafetyInit /\ [][SafetyNext]_vars

\* check_text returned
checked == checker_pc = 7

\* the alerts of one category
alerts_in(category) == SelectSeq(checker_alerts, LAMBDA a : a.category = category)

\* ------------------------------------------------------------------------
\* MultiPassExtractor.extract (multipass.py lines 132-158) on one document,
\* one action per pass
\* ------------------------------------------------------------------------
\* extract is called on a document
ExtractInit ==
    /\ compiler_constructed
    /\ checker_unused
    /\ mp_document \in ExtractDocs
    /\ mp_pc = "idle"
    /\ mp_result = <<>>
    /\ mp_response = <<>>
    /\ mp_raw_extractions = <<>>
    /\ mp_error = None
    /\ mp_runs = 0
    /\ mp_first_alerts = <<>>
    /\ mp_gen_calls = 0

\* lines 134-141: the result is created and the rule-based check runs
extract_begin ==
    /\ mp_pc \in {"idle", "done", "raised"}
    /\ mp_runs < MaxRuns
    /\ mp_result' = [document_id |-> mp_document.id,
                     document_type |-> mp_document.source_type,
                     extractions |-> <<>>,
                     safety_alerts |-> check_text(mp_document.content, mp_document.id),
                     missing_mandatory |-> <<>>,
                     raw_content |-> mp_document.content]
    /\ mp_first_alerts' = IF mp_runs = 0 THEN mp_result'.safety_alerts ELSE mp_first_alerts
    /\ mp_runs' = mp_runs + 1
    /\ mp_pc' = "pass1"
    /\ mp_response' = <<>>
    /\ mp_raw_extractions' = <<>>
    /\ mp_error' = None
    /\ mp_gen_calls' = 0
    /\ UNCHANGED <<mp_document, compile_vars, checker_vars>>

\* line 145: _pass1_extract, the collaborator answering response
extract_pass1(response) ==
    /\ mp_pc = "pass1"
    /\ mp_response' = response
    /\ mp_raw_extractions' = pass1_extract(response)
    /\ mp_pc' = "pass2"
    /\ mp_gen_calls' = mp_gen_calls + 1
    /\ UNCHANGED <<mp_document, mp_result, mp_error, mp_runs, mp_first_alerts,
                   compile_vars, checker_vars>>

\* lines 149-150: _pass2_verify; an exception it raises leaves extract
extract_pass2 ==
    /\ mp_pc = "pass2"
    /\ LET verified == pass2_verify(mp_document, mp_raw_extractions)
       IN  IF verified.error # None
           THEN /\ mp_pc' = "raised"
                /\ mp_error' = verified.error
                /\ UNCHANGED mp_result
           ELSE /\ mp_pc' = "pass3"
                /\ mp_result' = [mp_result EXCEPT !.extractions = verified.items]
                /\ UNCHANGED mp_error
    /\ UNCHANGED <<mp_document, mp_response, mp_raw_extractions, mp_runs, mp_first_alerts,
                   mp_gen_calls, compile_vars, checker_vars>>

\* Mutant of extract_pass3: pass 3 puts SAFETY_CHECK_PROMPT to _generate
extract_pass3_asks ==
    /\ mp_pc = "pass3"
    /\ mp_result' = [mp_result EXCEPT
                        !.safety_alerts = @ \o missed_alerts_of(mp_document, mp_result),
                        !.missing_mandatory = missing_mandatory_of(mp_document)]
    /\ mp_pc' = "done"
    /\ mp_gen_calls' = mp_gen_calls + 1
    /\ UNCHANGED <<mp_document, mp_response, mp_raw_extractions, mp_error, mp_runs,
                   mp_first_alerts, compile_vars, checker_vars>>

\* lines 154-158: _pass3_safety_check, and extract returns
extract_pass3 ==
    /\ mp_pc = "pass3"
    /\ mp_result' = [mp_result EXCEPT
                        !.safety_alerts = @ \o missed_alerts_of(mp_document, mp_result),
                        !.missing_mandatory = missing_mandatory_of(mp_document)]
    /\ mp_pc' = "done"
    /\ UNCHANGED <<mp_document, mp_response, mp_raw_extractions, mp_error, mp_runs,
                   mp_first_alerts, mp_gen_calls, compile_vars, checker_vars>>

ExtractNext ==
    \/ extract_begin
    \/ \E response \in ShapedResponses \cup OddResponses : extract_pass1(response)
    \/ extract_pass2
    \/ extract_pass3

SpecExtract == ExtractInit /\ [][ExtractNext]_vars

\* ------------------------------------------------------------------------
\* What one compile call received: its documents and, from gen_log, the
\* answers the collaborator gave during the call
\* ------------------------------------------------------------------------
\* what extract_clinical_info returned for the k-th document of caller c's
\* call, with the "_document" compile attaches
extraction_of_call(c, k) ==
    LET doc == documents[c][k]
        extracted == gen_log[c][k].result
    IN  [active_problems |-> extracted.active_problems,
         historical_problems |-> extracted.historical_problems,
         medications |-> extracted.medications,
         investigations |-> extracted.investigations,
         plans |-> extracted.plans,
         pending |-> extracted.pending,
         risks |-> extracted.risks,
         unclear |-> extracted.unclear,
         document |-> doc]

extractions_of_call(c) == [k \in 1..Len(documents[c]) |-> extraction_of_call(c, k)]

merged_of_call(c) == merge_extractions(extractions_of_call(c))

\* the answer to the conflict-resolution request of the call, if one was made
conflict_answer_of_call(c, merged_arg) ==
    IF Len(merged_arg.active_problems) > 1
    THEN gen_log[c][Len(documents[c]) + 1].response
    ELSE <<>>

\* the snapshot compile computes from the call's own inputs alone
snapshot_of_call(c) ==
    LET m == merged_of_call(c)
        r == resolve_all_conflicts(m, conflict_answer_of_call(c, m))
        prioritized == prioritize_for_mode(r[1], mode[c])
    IN  build_snapshot(documents[c], prioritized, r[2],
                       gen_log[c][Len(gen_log[c])].response, mode[c])

returned(c) == pc[c] = "done"
snapshot(c) == outcome[c][1]

\* ------------------------------------------------------------------------
\* Properties
\* ------------------------------------------------------------------------

\* C1: a compile call with an empty document list raises the input error at
\* once: in the step that begins the call no generation request is made, no
\* snapshot is returned and self._extracted_data keeps its value.
C1_EmptyInputRejected ==
    [][\A c \in Callers :
          (call_id'[c] # call_id[c] /\ documents'[c] = <<>>)
          => /\ pc'[c] = "failed"
             /\ error'[c] = "ValueError"
             /\ outcome'[c] = <<>>
             /\ gen_log' = gen_log
             /\ extracted_data' = extracted_data]_vars

\* an empty call was rejected while an earlier call's extractions were stored
C1_Witness ==
    \E c \in Callers :
        /\ error[c] = "ValueError"
        /\ documents[c] = <<>>
        /\ leftover[c]
        /\ extracted_data # <<>>

\* C2: in a returned snapshot every entry of active problems, key events,
\* pending tasks, risks and unclear items (those made from conflicts too)
\* has a source id that is a key of sources and is the id of a document of
\* the call whose extraction holds the entry's text in the entry's category.
C2_entry_ok(c, ex, sid, text, section) ==
    /\ sid \in DOMAIN snapshot(c).sources
    /\ \E k \in 1..Len(documents[c]) :
          /\ documents[c][k].id = sid
          /\ \E i \in 1..Len(ex[k][section]) : ex[k][section][i].text = text

C2_SourceIdsResolvable ==
    \A c \in Callers :
        returned(c) =>
            LET s == snapshot(c)
                ex == extractions_of_call(c)
            IN  /\ \A i \in 1..Len(s.active_problems) :
                      C2_entry_ok(c, ex, s.active_problems[i].source_id,
                                  s.active_problems[i].text, "active_problems")
                /\ \A i \in 1..Len(s.key_events) :
                      C2_entry_ok(c, ex, s.key_events[i].source_id,
                                  s.key_events[i].text, "plans")
                /\ \A i \in 1..Len(s.pending_tasks) :
                      C2_entry_ok(c, ex, s.pending_tasks[i].source_id,
                                  s.pending_tasks[i].description, "pending")
                /\ \A i \in 1..Len(s.risks) :
                      C2_entry_ok(c, ex, s.risks[i].source_id,
                                  s.risks[i].description, "risks")
                /\ \A i \in 1..Len(s.unclear_items) :
                      /\ Len(s.unclear_items[i].source_ids) = 1
                      /\ C2_entry_ok(c, ex, s.unclear_items[i].source_ids[1],
                                     s.unclear_items[i].source_excerpts[1],
                                     IF s.unclear_items[i].reason = "conflicting"
                                     THEN "active_problems" ELSE "unclear")

\* a snapshot of two documents with different ids that has entries of every
\* list, an unclear item made from a conflict among them
C2_Witness ==
    \E c \in Callers :
        /\ returned(c)
        /\ Cardinality(DOMAIN snapshot(c).sources) = 2
        /\ snapshot(c).active_problems # <<>>
        /\ snapshot(c).key_events # <<>>
        /\ snapshot(c).pending_tasks # <<>>
        /\ snapshot(c).risks # <<>>
        /\ \E i \in 1..Len(snapshot(c).unclear_items) :
              snapshot(c).unclear_items[i].reason = "conflicting"
        /\ \E i \in 1..Len(snapshot(c).unclear_items) :
              snapshot(c).unclear_items[i].reason = "ambiguous"

\* C3: the snapshot returned for a non-empty document list has
\* input_document_count equal to the number of documents passed in.
C3_DocumentCount ==
    \A c \in Callers :
        returned(c) => snapshot(c).input_document_count = Len(documents[c])

\* two documents with the same id were compiled, one of them yielding no item
C3_Witness ==
    \E c \in Callers :
        /\ returned(c)
        /\ Len(documents[c]) = 2
        /\ documents[c][1].id = documents[c][2].id
        /\ \E k \in 1..2 :
              /\ extraction_of_call(c, k).active_problems = <<>>
              /\ extraction_of_call(c, k).pending = <<>>
              /\ extraction_of_call(c, k).plans = <<>>

\* C4: whatever calls were made before on the instance, the snapshot a call
\* returns is the one computed from the call's documents, its mode and the
\* collaborator's answers in that call, and the status-synthesis request
\* lists the items extracted in that call only.
C4_NoStateCarriedOver ==
    \A c \in Callers :
        returned(c) =>
            /\ snapshot(c) = snapshot_of_call(c)
            /\ gen_log[c][Len(gen_log[c])].request =
                  synthesize_request(extractions_of_call(c))

\* a call returned on an instance that still stored an earlier call's
\* extractions when the call began
C4_Witness ==
    \E c \in Callers :
        /\ returned(c)
        /\ call_id[c] > 1
        /\ leftover[c]
        /\ snapshot(c).active_problems # <<>>

\* C10: when conflict resolution runs (more than one merged active problem),
\* an item is a conflict iff the answer contains 'CONFLICT:' and the item's
\* text; the others are kept in merge order; in the snapshot every merged
\* problem is either an active problem or an UnclearItem with reason
\* 'conflicting', never both and never neither.
C10_in_answer(item, answer) ==
    /\ \E i \in 0..(Len(answer) - Len(str("CONFLICT:"))) :
          SubSeq(answer, i + 1, i + Len(str("CONFLICT:"))) = str("CONFLICT:")
    /\ \E i \in 0..(Len(answer) - Len(item.text)) :
          SubSeq(answer, i + 1, i + Len(item.text)) = item.text

C10_key(text, source_id) == <<text, source_id>>

C10_ConflictPartition ==
    \A c \in Callers :
        returned(c) =>
            LET mp == merged_of_call(c).active_problems
                answer == gen_log[c][Len(documents[c]) + 1].response
                s == snapshot(c)
                problems == [i \in 1..Len(s.active_problems) |->
                                C10_key(s.active_problems[i].text,
                                        s.active_problems[i].source_id)]
                unclear_conf == SelectSeq(s.unclear_items,
                                          LAMBDA u : u.reason = "conflicting")
                conflicting == [i \in 1..Len(unclear_conf) |->
                                   C10_key(unclear_conf[i].source_excerpts[1],
                                           unclear_conf[i].source_ids[1])]
                keys == [i \in 1..Len(mp) |-> C10_key(mp[i].text, mp[i].source_id)]
                flag == [i \in 1..Len(mp) |-> C10_in_answer(mp[i], answer)]
                kept_idx == {i \in 1..Len(mp) : ~flag[i]}
                conf_idx == {i \in 1..Len(mp) : flag[i]}
            IN  Len(mp) > 1 =>
                /\ gen_log[c][Len(documents[c]) + 1].request.kind = "resolve"
                /\ Len(problems) = Cardinality(kept_idx)
                /\ Len(conflicting) = Cardinality(conf_idx)
                \* kept items, in merge order
                /\ \A i \in kept_idx :
                      problems[Cardinality({j \in kept_idx : j <= i})] = keys[i]
                \* conflicts, in merge order
                /\ \A i \in conf_idx :
                      conflicting[Cardinality({j \in conf_idx : j <= i})] = keys[i]
                \* never both, never neither
                /\ \A i \in 1..Len(mp) :
                      (keys[i] \in Range(problems)) # (keys[i] \in Range(conflicting))

\* conflict resolution ran and split the merged problems into kept ones and
\* conflicts
C10_Witness ==
    \E c \in Callers :
        /\ returned(c)
        /\ snapshot(c).active_problems # <<>>
        /\ Len(merged_of_call(c).active_problems) > 2
        /\ \E i \in 1..Len(snapshot(c).unclear_items) :
              snapshot(c).unclear_items[i].reason = "conflicting"

\* ------------------------------------------------------------------------
\* Safety alerts and the multi-pass extractor
\* ------------------------------------------------------------------------
\* extract returned
extracted == mp_pc = "done"

\* C5: the safety alerts of the result extract returns are exactly
\* check_text(content, id), in the same order, whatever the collaborator
\* answered in pass 1 (pass 3 adds no alert), and a further run on the same
\* document, with whatever answer, reports the alerts of the first run.
C5_AlertsFunctionOfText ==
    extracted =>
        /\ mp_result.safety_alerts = check_text(mp_document.content, mp_document.id)
        /\ mp_result.safety_alerts = mp_first_alerts

\* a second run returned, on a document that has alerts, after the
\* collaborator answered with candidates
C5_Witness ==
    /\ extracted
    /\ mp_runs = 2
    /\ mp_result.safety_alerts # <<>>
    /\ mp_response \in ShapedResponses
    /\ mp_result.extractions # <<>>

\* C6: a text whose only allergy statement is a no-allergy exclusion ("NKDA"
\* or a "no known ..." phrase) gets no allergy alert, wherever the exclusion
\* stands relative to the allergy keyword.
C6_NoAllergyExclusion ==
    (checker_pc >= 2 /\ checker_parts[1] \in NoAllergyStatements)
        => alerts_in("allergy") = <<>>

\* C7: a text stating one out-of-range value of one lab, one resuscitation
\* limitation and a no-allergy statement gets exactly one critical_result
\* alert, exactly one resus_status alert, of critical severity, and no allergy
\* alert, however the resuscitation status and the lab are phrased.
C7_OneAlertPerStatement ==
    (/\ checked
     /\ checker_parts[1] \in NoAllergyStatements
     /\ checker_parts[2] \in ResusLimitations
     /\ checker_parts[3] \in CriticalLabStatements)
        => /\ Len(alerts_in("critical_result")) = 1
           /\ Len(alerts_in("resus_status")) = 1
           /\ alerts_in("resus_status")[1].severity = "critical"
           /\ alerts_in("allergy") = <<>>

\* the candidates of pass 1 in problems, medications, pending tasks and risks
C8_candidates == flatten_from(mp_raw_extractions, 1).items
C8_unmarked(k) == ~contains_any(lower(C8_candidates[k].text.value), uncertainty_markers)
C8_num(k) == overlap_num(C8_candidates[k].quote.value, mp_document.content)
C8_den(k) == overlap_den(C8_candidates[k].quote.value)

\* C8: every candidate is emitted; without an uncertainty marker in its text,
\* overlap > 0.7 gives (0.9, verified, ""), 0.4 < overlap <= 0.7 gives (0.7,
\* verified, "Partial quote match"), overlap <= 0.4 gives (0.4, not verified,
\* "Quote not found in source"); confidence is non-decreasing in overlap.
C8_OverlapThresholds ==
    mp_pc \in {"pass3", "done"} =>
        /\ Len(mp_result.extractions) >= Len(C8_candidates)
        /\ \A k \in 1..Len(C8_candidates) :
            /\ mp_result.extractions[k].text = C8_candidates[k].text.value
            /\ C8_unmarked(k) =>
                LET e == mp_result.extractions[k]
                    got == <<e.confidence, e.is_verified, e.verification_note>>
                IN  IF 10 * C8_num(k) > 7 * C8_den(k)
                    THEN got = <<90, TRUE, <<>>>>
                    ELSE IF 10 * C8_num(k) > 4 * C8_den(k)
                    THEN got = <<70, TRUE, str("Partial quote match")>>
                    ELSE got = <<40, FALSE, str("Quote not found in source")>>
        /\ \A j, k \in 1..Len(C8_candidates) :
            (/\ C8_unmarked(j) /\ C8_unmarked(k)
             /\ C8_num(j) * C8_den(k) <= C8_num(k) * C8_den(j))
                => mp_result.extractions[j].confidence <= mp_result.extractions[k].confidence

\* two candidates were verified: one whose overlap is exactly 0.7, one whose
\* overlap is exactly 0.4
C8_Witness ==
    /\ extracted
    /\ Len(C8_candidates) = 2
    /\ 10 * C8_num(1) = 7 * C8_den(1)
    /\ 10 * C8_num(2) = 4 * C8_den(2)
    /\ mp_result.extractions[1].confidence = 70
    /\ mp_result.extractions[2].confidence = 40

\* C9: whatever the collaborator answers in pass 1 -- empty, not structured,
\* structurally invalid, or well-formed with a category that is missing, null,
\* not a list, or a list whose entries are not objects -- extract returns; no
\* exception leaves it.
C9_NeverRaises == mp_pc # "raised"

\* C11: the pending list left by _resolve_all_conflicts is the merged pending
\* list cut down to the first occurrence of each trimmed, lowercased text:
\* no two entries left share that text, every merged text is still there,
\* the order is the merge order and each entry is the merged entry (text and
\* source id) of the first occurrence; the same holds when no conflict
\* resolution ran, and the pending tasks of the returned snapshot are these
\* entries.
C11_key(item) == lstrip(rstrip(lower(item.text)))

C11_first(mp) == {i \in 1..Len(mp) : \A j \in 1..(i - 1) : C11_key(mp[j]) # C11_key(mp[i])}

C11_PendingDeduplicated ==
    \A c \in Callers :
        LET mp == merged_of_call(c).pending
            up == merged[c].pending
            first == C11_first(mp)
        IN  /\ pc[c] = "prioritize" =>
                /\ Len(up) = Cardinality(first)
                /\ \A i \in first : up[Cardinality({j \in first : j <= i})] = mp[i]
                /\ \A i, j \in 1..Len(up) : C11_key(up[i]) = C11_key(up[j]) => i = j
                /\ \A i \in 1..Len(mp) : \E j \in 1..Len(up) : C11_key(up[j]) = C11_key(mp[i])
            /\ returned(c) =>
                /\ Len(snapshot(c).pending_tasks) = Cardinality(first)
                /\ {<<snapshot(c).pending_tasks[i].description,
                      snapshot(c).pending_tasks[i].source_id>> :
                        i \in 1..Len(snapshot(c).pending_tasks)}
                   = {<<mp[i].text, mp[i].source_id>> : i \in first}

\* no conflict resolution ran, and a pending entry was dropped whose text and
\* source id differ from those of the first occurrence
C11_Witness ==
    \E c \in Callers :
        /\ pc[c] = "prioritize"
        /\ Len(merged_of_call(c).active_problems) <= 1
        /\ \E i, j \in 1..Len(merged_of_call(c).pending) :
              /\ i < j
              /\ C11_key(merged_of_call(c).pending[i]) = C11_key(merged_of_call(c).pending[j])
              /\ merged_of_call(c).pending[i].text # merged_of_call(c).pending[j].text
              /\ merged_of_call(c).pending[i].source_id # merged_of_call(c).pending[j].source_id
              /\ merged[c].pending[1] = merged_of_call(c).pending[i]

\* C12: in handover mode the pending tasks of the snapshot are the
\* deduplicated pending list reordered by urgency score (0 for a text with a
\* high-urgency keyword, else 1 for one with a medium keyword, else 2):
\* every entry is placed behind all entries of lower score and behind the
\* entries of equal score that precede it in merge order, nothing is added
\* or lost.
C12_deduplicated(c) ==
    LET mp == merged_of_call(c).pending
        first == C11_first(mp)
    IN  [k \in 1..Cardinality(first) |->
            mp[CHOOSE i \in first : Cardinality({j \in first : j <= i}) = k]]

C12_score(item) ==
    IF \E k \in 1..Len(urgency_keywords.high) :
            contains(lower(item.text), urgency_keywords.high[k]) THEN 0
    ELSE IF \E k \in 1..Len(urgency_keywords.medium) :
            contains(lower(item.text), urgency_keywords.medium[k]) THEN 1
    ELSE 2

C12_place(d, i) ==
    Cardinality({j \in 1..Len(d) : C12_score(d[j]) < C12_score(d[i])})
    + Cardinality({j \in 1..i : C12_score(d[j]) = C12_score(d[i])})

C12_HandoverStableSort ==
    \A c \in Callers :
        (returned(c) /\ mode[c] = "handover") =>
            LET d == C12_deduplicated(c)
                tasks == snapshot(c).pending_tasks
            IN  /\ Len(tasks) = Len(d)
                /\ \A i \in 1..Len(d) :
                      /\ tasks[C12_place(d, i)].description = d[i].text
                      /\ tasks[C12_place(d, i)].source_id = d[i].source_id
                /\ \A i, j \in 1..Len(d) : i # j => C12_place(d, i) # C12_place(d, j)

\* a handover snapshot whose pending tasks were reordered, with entries of
\* all three scores and two entries of equal score
C12_Witness ==
    \E c \in Callers :
        /\ returned(c)
        /\ mode[c] = "handover"
        /\ LET d == C12_deduplicated(c)
           IN  /\ {C12_score(d[i]) : i \in 1..Len(d)} = {0, 1, 2}
               /\ \E i, j \in 1..Len(d) : i < j /\ C12_score(d[i]) = C12_score(d[j])
               /\ \E i \in 1..Len(d) : C12_place(d, i) # i
               /\ snapshot(c).pending_tasks[1].description = str("Urgent cardiology review")

\* C13: the mode changes the order of the pending tasks and nothing else.
\* The snapshot a call returned and the snapshot of the same documents and
\* the same answers of the collaborator in any other mode have the same
\* active problems, key events, risks, unclear items, sources, current
\* status and document count, and the same pending tasks with the same
\* urgency up to order; outside handover mode the pending tasks stand in
\* deduplicated merge order.
C13_snapshot_in(c, mode_arg) ==
    LET m == merged_of_call(c)
        r == resolve_all_conflicts(m, conflict_answer_of_call(c, m))
    IN  build_snapshot(documents[c], prioritize_for_mode(r[1], mode_arg), r[2],
                       gen_log[c][Len(gen_log[c])].response, mode_arg)

C13_tasks(s) == {s.pending_tasks[i] : i \in 1..Len(s.pending_tasks)}

C14_has(text, keywords) ==
    \E k \in 1..Len(keywords) :
        \E i \in 0..(Len(text) - Len(keywords[k])) :
            SubSeq(lower(text), i + 1, i + Len(keywords[k])) = keywords[k]

C14_UrgencyPrecedence ==
    \A c \in Callers :
        returned(c) =>
            \A i \in 1..Len(snapshot(c).pending_tasks) :
                LET task == snapshot(c).pending_tasks[i]
                    urgent == C14_has(task.description, urgent_keywords)
                    soon == C14_has(task.description, soon_keywords)
                IN  /\ urgent => task.urgency = "urgent"
                    /\ (~urgent /\ soon) => task.urgency = "soon"
                    /\ (~urgent /\ ~soon) => task.urgency = "routine"

\* a snapshot with tasks of the three urgencies, one of them holding both an
\* urgent and a soon keyword
C14_Witness ==
    \E c \in Callers :
        /\ returned(c)
        /\ {snapshot(c).pending_tasks[i].urgency : i \in 1..Len(snapshot(c).pending_tasks)}
              = {"urgent", "soon", "routine"}
        /\ \E i \in 1..Len(snapshot(c).pending_tasks) :
              /\ C14_has(snapshot(c).pending_tasks[i].description, urgent_keywords)
              /\ C14_has(snapshot(c).pending_tasks[i].description, soon_keywords)
              /\ snapshot(c).pending_tasks[i].urgency = "urgent"

\* C15: status synthesis is one generation request per compilation, made
\* from the compiled lists only: the active problems it lists are those
\* conflict resolution kept, the pending items are the deduplicated (in
\* handover mode prioritized) pending list, and it carries no document
\* content.
C15_SynthesisFromCompiledLists ==
    \A c \in Callers :
        pc[c] \in {"build", "done"} =>
            LET requests == [k \in 1..Len(gen_log[c]) |-> gen_log[c][k].request]
                request == requests[Len(requests)]
            IN  /\ Cardinality({k \in 1..Len(requests) : requests[k].kind = "synthesize"}) = 1
                /\ request.kind = "synthesize"
                /\ "content" \notin DOMAIN request
                /\ request.all_problems =
                      [i \in 1..Len(merged[c].active_problems) |->
                          merged[c].active_problems[i].text]
                /\ request.all_pending =
                      [i \in 1..Len(merged[c].pending) |-> merged[c].pending[i].text]

\* C16: when the extraction of a document raises, compile ends with that
\* exception: the call is over, no snapshot is returned, the documents
\* behind the failing one are not extracted, and no merge, conflict
\* resolution or status synthesis is made.
C16_ExtractionFailureIsFatal ==
    \A c \in Callers :
        error[c] = "GenerationError" =>
            /\ pc[c] = "failed"
            /\ outcome[c] = <<>>
            /\ Len(gen_log[c]) < Len(documents[c])
            /\ \A k \in 1..Len(gen_log[c]) :
                  /\ gen_log[c][k].request.kind = "extract"
                  /\ gen_log[c][k].request.doc_id = documents[c][k].id
            /\ merged[c] = empty_merged
            /\ conflicts[c] = <<>>
            /\ current_status[c] = <<>>

\* the extraction of the second of two documents raised after the first was
\* extracted
C16_Witness ==
    \E c \in Callers :
        /\ error[c] = "GenerationError"
        /\ Len(documents[c]) = 2
        /\ Len(gen_log[c]) = 1
        /\ Len(extracted_data) = 1
        /\ extracted_data[1].active_problems # <<>>

\* C17: in every compile run the generation requests are, in this order, one
\* extraction request per document in document order, then one
\* conflict-resolution request exactly when more than one active problem was
\* merged, then one status-synthesis request; merge starts only when every
\* document has been extracted, deduplication and prioritization stand
\* between conflict resolution and synthesis, the snapshot is assembled
\* last, and a run moves from a stage only to the stage that follows it.
C17_log_ok(c) ==
    LET n == Len(documents[c])
        log == gen_log[c]
        asked == IF Len(merged_of_call(c).active_problems) > 1 THEN 1 ELSE 0
        extracted_first(k) ==
            /\ Len(log) >= k
            /\ \A i \in 1..k :
                  /\ log[i].request.kind = "extract"
                  /\ log[i].request.doc_id = documents[c][i].id
                  /\ log[i].request.content = documents[c][i].content
    IN  CASE pc[c] = "extract" ->
                /\ Len(log) = doc_index[c] - 1
                /\ doc_index[c] <= n
                /\ extracted_first(Len(log))
          [] pc[c] \in {"merge", "resolve"} ->
                /\ Len(log) = n
                /\ extracted_first(n)
                /\ Len(extracted_data) = n
          [] pc[c] \in {"prioritize", "synthesize"} ->
                /\ Len(log) = n + asked
                /\ extracted_first(n)
                /\ asked = 1 => log[n + 1].request.kind = "resolve"
                /\ outcome[c] = <<>>
          [] pc[c] \in {"build", "done"} ->
                /\ Len(log) = n + asked + 1
                /\ extracted_first(n)
                /\ asked = 1 => log[n + 1].request.kind = "resolve"
                /\ log[n + asked + 1].request.kind = "synthesize"
                /\ (outcome[c] # <<>>) = (pc[c] = "done")
          [] OTHER -> outcome[c] = <<>>

C17_next_stage ==
    {<<"idle", "extract">>, <<"idle", "failed">>, <<"done", "extract">>, <<"done", "failed">>,
     <<"failed", "extract">>, <<"failed", "failed">>,
     <<"extract", "extract">>, <<"extract", "merge">>, <<"extract", "failed">>,
     <<"merge", "resolve">>, <<"resolve", "prioritize">>, <<"prioritize", "synthesize">>,
     <<"synthesize", "build">>, <<"build", "done">>}

C17_StageOrder ==
    /\ [](\A c \in Callers : C17_log_ok(c))
    /\ [][\A c \in Callers :
            (pc'[c] # pc[c] \/ gen_log'[c] # gen_log[c] \/ merged'[c] # merged[c])
                => <<pc[c], pc'[c]>> \in C17_next_stage]_vars

\* a run over two documents returned after four generation requests, the
\* third of them the conflict-resolution request
C17_Witness ==
    \E c \in Callers :
        /\ returned(c)
        /\ Len(documents[c]) = 2
        /\ Len(gen_log[c]) = 4
        /\ gen_log[c][3].request.kind = "resolve"

\* C18: in every extract run the rule-based safety check is finished before
\* pass 1, pass 1 makes the run's only generation call and is finished
\* before pass 2, pass 2 before pass 3, and the result is returned after
\* pass 3 only; the run reads its own document and the answer to its own
\* call and writes its own result, nothing else.
C18_run_ok ==
    CASE mp_pc = "pass1" ->
            /\ mp_gen_calls = 0
            /\ mp_result.safety_alerts = check_text(mp_document.content, mp_document.id)
            /\ mp_result.extractions = <<>>
            /\ mp_result.missing_mandatory = <<>>
      [] mp_pc = "pass2" ->
            /\ mp_gen_calls = 1
            /\ mp_result.extractions = <<>>
            /\ mp_result.missing_mandatory = <<>>
      [] mp_pc = "pass3" ->
            /\ mp_gen_calls = 1
            /\ mp_result.missing_mandatory = <<>>
      [] mp_pc = "raised" -> mp_gen_calls = 1
      [] mp_pc = "done" ->
            /\ mp_gen_calls = 1
            /\ mp_result.document_id = mp_document.id
            /\ mp_result.document_type = mp_document.source_type
            /\ mp_result.raw_content = mp_document.content
            /\ mp_result.extractions =
                  pass2_verify(mp_document, pass1_extract(mp_response)).items
            /\ \A i \in 1..Len(mp_result.extractions) :
                  mp_result.extractions[i].source_id = mp_document.id
            /\ \A i \in 1..Len(mp_result.safety_alerts) :
                  mp_result.safety_alerts[i].source_id = mp_document.id
      [] OTHER -> mp_gen_calls = 0

C18_next_pass ==
    {<<"idle", "pass1">>, <<"pass1", "pass2">>, <<"pass2", "pass3">>, <<"pass2", "raised">>,
     <<"pass3", "done">>, <<"done", "pass1">>, <<"raised", "pass1">>}

C19_phrase(a) == lower(SubSeq(a.description, 15, Len(a.description)))

\* C19: every resus_status alert is critical when its matched phrase names a
\* limitation of resuscitation (DNAR, DNACPR, not for resus, matched directly
\* or captured after "resus status:") and high when the phrase is one of the
\* full-treatment phrases (for resuscitation, full escalation, for cpr)
C19_SeverityByPhrase ==
    \A i \in 1..Len(checker_alerts) :
        LET a == checker_alerts[i]
            p == C19_phrase(a)
        IN  a.category = "resus_status" =>
                /\ (\/ contains(p, str("dnar"))
                    \/ contains(p, str("dnacpr"))
                    \/ contains(p, str("not for resus"))) => a.severity = "critical"
                /\ p \in {str("for resuscitation"), str("full escalation"), str("for cpr")}
                        => a.severity = "high"


\* ------------------------------------------------------------------------
\* C20
\* ------------------------------------------------------------------------
\* where the reported value of a lab statement starts
C20_value_start(st) ==
    CHOOSE i \in 1..Len(st) :
        /\ \A j \in i..Len(st) : st[j] \in Digits \cup {"."}
        /\ i > 1 => st[i - 1] \notin Digits \cup {"."}

\* the value a lab statement reports, as a fraction
C20_value(st) == float(SubSeq(st, C20_value_start(st), Len(st)))

\* the lab a statement names
C20_lab(st) ==
    LET name == rstrip_chars(lower(SubSeq(st, 1, C20_value_start(st) - 1)), {":", " ", "+"})
    IN  CASE name \in {str("potassium"), str("k")} -> "potassium"
          [] name \in {str("sodium"), str("na")} -> "sodium"
          [] name = str("glucose") -> "glucose"
          [] name \in {str("haemoglobin"), str("hb")} -> "haemoglobin"
          [] name \in {str("platelets"), str("platelet")} -> "platelets"
          [] name = str("inr") -> "inr"
          [] name = str("creatinine") -> "creatinine"

\* the value is strictly below the low threshold of the lab, when it has one
C20_below(st) ==
    LET low == CRITICAL_LABS[C20_lab(st)].low
    IN  low # <<>> /\ C20_value(st).num * 10 < low[1] * C20_value(st).den

\* the value is strictly above the high threshold of the lab, when it has one
C20_above(st) ==
    LET high == CRITICAL_LABS[C20_lab(st)].high
    IN  high # <<>> /\ C20_value(st).num * 10 > high[1] * C20_value(st).den

\* C20: once the lab family has run on a text that reports one value next to
\* a lab name, there is a critical_result alert if and only if the value is
\* strictly below the lab's low threshold or strictly above its high
\* threshold: none at a threshold or inside the band, none for a high value
\* of a low-only lab or a low value of a high-only lab; the alert names the
\* lab and the value, is marked with the double down arrow for a low breach
\* and the double up arrow for a high breach, and there is never more than
\* one; a text without a lab value has none
C20_CriticalLabThresholds ==
    checker_pc > 3 =>
        LET st == checker_parts[3]
            found == alerts_in("critical_result")
        IN  IF st = <<>> THEN found = <<>>
            ELSE /\ Len(found) <= 1
                 /\ Len(found) = 1 <=> (C20_below(st) \/ C20_above(st))
                 /\ Len(found) = 1 =>
                        /\ found[1].severity = "critical"
                        /\ found[1].source_id = checker_source_id
                        /\ found[1].description
                              = str("CRITICAL: ") \o title(str(C20_lab(st))) \o str(" ")
                                  \o float_str(SubSeq(st, C20_value_start(st), Len(st)))
                                  \o str(" ")
                                  \o (IF C20_below(st) THEN <<"DOWN", "DOWN">>
                                      ELSE <<"UP", "UP">>)

\* a text that reports a potassium equal to the high threshold, next to an
\* allergy statement and a resus statement, has gone through all six
\* families: no critical_result alert, and the resus statement is reported
C20_Witness ==
    /\ checked
    /\ checker_parts[3] = str("Potassium 6.0")
    /\ checker_parts[1] # <<>>
    /\ checker_parts[2] # <<>>
    /\ alerts_in("critical_result") = <<>>
    /\ alerts_in("resus_status") # <<>>

\* ------------------------------------------------------------------------
\* C21
\* ------------------------------------------------------------------------
\* the text of candidate k holds one of "?", "possibly", "likely", "unclear",
\* "query", in any case
C21_marked(k) ==
    \E marker \in {str("?"), str("possibly"), str("likely"), str("unclear"), str("query")} :
        contains(lower(C8_candidates[k].text.value), marker)

\* confidence (in hundredths), verified flag and note that the overlap of
\* candidate k alone decides
C21_by_overlap(k) ==
    IF 10 * C8_num(k) > 7 * C8_den(k) THEN <<90, TRUE, <<>>>>
    ELSE IF 10 * C8_num(k) > 4 * C8_den(k) THEN <<70, TRUE, str("Partial quote match")>>
    ELSE <<40, FALSE, str("Quote not found in source")>>

\* C21: a candidate whose text holds an uncertainty marker is emitted with
\* the confidence its overlap decides multiplied by 0.8 (0.72, 0.56 or 0.32),
\* the note "Contains uncertainty marker" and the verified flag its overlap
\* decides; a candidate without a marker keeps the confidence and the note
\* its overlap decides; every confidence lies between 0 and 1
C21_UncertaintyPenalty ==
    mp_pc \in {"pass3", "done"} =>
        /\ \A k \in 1..Len(C8_candidates) :
            LET e == mp_result.extractions[k]
                o == C21_by_overlap(k)
            IN  /\ e.is_verified = o[2]
                /\ IF C21_marked(k)
                   THEN /\ 10 * e.confidence = 8 * o[1]
                        /\ e.confidence \in {72, 56, 32}
                        /\ e.verification_note = str("Contains uncertainty marker")
                   ELSE /\ e.confidence = o[1]
                        /\ e.verification_note = o[3]
        /\ \A k \in 1..Len(mp_result.extractions) :
            mp_result.extractions[k].confidence \in 0..100

\* a candidate "Possibly PE" with a fully matching quote was emitted at 0.72,
\* verified, with the marker note
C21_Witness ==
    /\ extracted
    /\ Len(C8_candidates) = 1
    /\ C8_candidates[1].text.value = str("Possibly PE")
    /\ 10 * C8_num(1) > 7 * C8_den(1)
    /\ mp_result.extractions[1].confidence = 72
    /\ mp_result.extractions[1].is_verified
    /\ mp_result.extractions[1].verification_note = str("Contains uncertainty marker")

\* ------------------------------------------------------------------------
\* C22
\* ------------------------------------------------------------------------
\* the unclear_items list of the pass-1 output, when it is a list of objects
C22_unclear_items ==
    LET v == dict_get(mp_raw_extractions, str("unclear_items"), py("list", <<>>))
    IN  IF v.type = "list" /\ \A k \in 1..Len(v.value) : v.value[k].type = "dict"
        THEN v.value ELSE <<>>

\* C22: once pass 2 is over, every item of the unclear category of the pass-1
\* output stands in the result as one extraction of category "unclear" with
\* its text, confidence 0.3, verified, and a note that states its reason,
\* whether or not the other categories hold candidates
C22_UnclearItemsRecorded ==
    mp_pc \in {"pass3", "done"} =>
        LET recorded == SelectSeq(mp_result.extractions,
                                  LAMBDA e : e.category = str("unclear"))
        IN  /\ Len(recorded) = Len(C22_unclear_items)
            /\ \A k \in 1..Len(C22_unclear_items) :
                /\ recorded[k].text
                      = dict_get(C22_unclear_items[k], str("text"), py("str", <<>>)).value
                /\ recorded[k].confidence = 30
                /\ recorded[k].is_verified
                /\ recorded[k].verification_note
                      = str("Flagged as unclear: ")
                          \o format(dict_get(C22_unclear_items[k], str("reason"),
                                             py("str", str("unknown"))))

\* ------------------------------------------------------------------------
\* C25
\* ------------------------------------------------------------------------
\* C25: every extraction of a result extract returns has a category of the
\* set problem, medication, investigation, plan, pending, risk, unclear
C25_CategoryClosedSet ==
    extracted =>
        \A k \in 1..Len(mp_result.extractions) :
            mp_result.extractions[k].category
                \in {str("problem"), str("medication"), str("investigation"), str("plan"),
                     str("pending"), str("risk"), str("unclear")}

\* ------------------------------------------------------------------------
\* C23
\* ------------------------------------------------------------------------
\* the document text holds one of the terms, in any case
C23_has_term(terms) == \E term \in terms : contains(lower(mp_document.content), term)

C23_allergy_missing == str("Allergy status not documented")
C23_resus_missing == str("Resuscitation status not documented")

\* C23: the missing_mandatory list of a returned result holds "Allergy status
\* not documented" exactly when the text has no allergy or no-allergy term,
\* and "Resuscitation status not documented" exactly when the source type is
\* typed_note or handwritten and the text has no resuscitation term; it holds
\* nothing else, no entry twice, and is the same whatever pass 1 was answered
C23_MissingMandatory ==
    extracted =>
        LET mm == mp_result.missing_mandatory
            found == {mm[i] : i \in 1..Len(mm)}
        IN  /\ found \subseteq {C23_allergy_missing, C23_resus_missing}
            /\ Len(mm) = Cardinality(found)
            /\ C23_allergy_missing \in found
                  <=> ~C23_has_term({str("allerg"), str("nkda"), str("no known drug")})
            /\ C23_resus_missing \in found
                  <=> /\ mp_document.source_type \in {"typed_note", "handwritten"}
                      /\ ~C23_has_term({str("dnar"), str("dnacpr"), str("resus"),
                                        str("escalation"), str("ceiling"), str("for cpr")})
            /\ mp_document.source_type \notin {"typed_note", "handwritten"}
                  => C23_resus_missing \notin found

\* a lab result without allergy and resuscitation terms was returned after an
\* answer with candidates: only the allergy status is reported missing
C23_Witness ==
    /\ extracted
    /\ mp_document.source_type = "lab_result"
    /\ mp_response \in ShapedResponses
    /\ mp_result.extractions # <<>>
    /\ ~C23_has_term({str("resus"), str("dnar"), str("for cpr")})
    /\ mp_result.missing_mandatory = <<C23_allergy_missing>>

\* ------------------------------------------------------------------------
\* C29
\* ------------------------------------------------------------------------
\* the result holds an alert of the category
C29_alerted(category) ==
    \E i \in 1..Len(mp_result.safety_alerts) : mp_result.safety_alerts[i].category = category

\* the result reports the entry as missing
C29_reported(entry) ==
    \E i \in 1..Len(mp_result.missing_mandatory) : mp_result.missing_mandatory[i] = entry

\* C29: a returned result that holds an allergy alert does not report the
\* allergy status as not documented, and one that holds a resus_status alert
\* does not report the resuscitation status as not documented
C29_GapCheckAgreesWithDetector ==
    extracted =>
        /\ C29_alerted("allergy") => ~C29_reported(str("Allergy status not documented"))
        /\ C29_alerted("resus_status")
              => ~C29_reported(str("Resuscitation status not documented"))

\* a typed note with an allergy alert and no resuscitation term was
\* returned: only the resuscitation status is reported missing
C29_Witness ==
    /\ extracted
    /\ C29_alerted("allergy")
    /\ ~C29_alerted("resus_status")
    /\ mp_result.missing_mandatory = <<str("Resuscitation status not documented")>>

\* ------------------------------------------------------------------------
\* C27
\* ------------------------------------------------------------------------
\* the ends of the well-formed structured blocks that start at the first "{"
\* of the pass-1 answer
C27_block_ends ==
    LET opens == {k \in 1..Len(mp_response) : mp_response[k] = "{"}
        a == CHOOSE k \in opens : \A m \in opens : k <= m
    IN  IF opens = {} THEN {}
        ELSE {b \in a..Len(mp_response) :
                 mp_response[b] = "}" /\ json_loads(SubSeq(mp_response, a, b)).ok}

\* the contents of the first well-formed block of the pass-1 answer
C27_first_block ==
    LET opens == {k \in 1..Len(mp_response) : mp_response[k] = "{"}
        a == CHOOSE k \in opens : \A m \in opens : k <= m
        b == CHOOSE k \in C27_block_ends : \A m \in C27_block_ends : k <= m
    IN  json_loads(SubSeq(mp_response, a, b)).value

\* C27: when the pass-1 answer holds a well-formed structured block, alone or
\* with text before it, text with braces after it or a second block after it,
\* pass 1 returns the contents of the first well-formed block
C27_FirstBlockParsed ==
    (mp_pc \in {"pass2", "pass3", "done", "raised"} /\ C27_block_ends # {})
        => mp_raw_extractions = C27_first_block

\* ------------------------------------------------------------------------
\* C24
\* ------------------------------------------------------------------------
\* the coarse confidence the markers of a text decide
C24_by_markers(text) ==
    IF \E marker \in {str("?"), str("possibly"), str("maybe"), str("unclear"),
                      str("unsure"), str("query")} : contains(lower(text), marker)
    THEN "low" ELSE "high"

\* C24: in a snapshot compile returned every ExtractedItem, active problem or
\* key event, has confidence "low" when its text holds one of the markers and
\* "high" otherwise; none has "medium"
C24_CoarseConfidence ==
    \A c \in Callers :
        returned(c) =>
            /\ \A i \in 1..Len(snapshot(c).active_problems) :
                  snapshot(c).active_problems[i].confidence
                      = C24_by_markers(snapshot(c).active_problems[i].text)
            /\ \A i \in 1..Len(snapshot(c).key_events) :
                  snapshot(c).key_events[i].confidence
                      = C24_by_markers(snapshot(c).key_events[i].text)

\* ------------------------------------------------------------------------
\* C28
\* ------------------------------------------------------------------------
\* the rank of an urgency label: urgent before soon before routine
C28_rank(urgency) == CASE urgency = "urgent" -> 0 [] urgency = "soon" -> 1 [] OTHER -> 2

\* C28: in a snapshot compiled in handover mode no pending task precedes a
\* task of a more urgent label: routine never stands before soon or urgent,
\* soon never before urgent
C28_OrderAgreesWithLabels ==
    \A c \in Callers :
        (returned(c) /\ mode[c] = "handover") =>
            \A i, j \in 1..Len(snapshot(c).pending_tasks) :
                i < j => C28_rank(snapshot(c).pending_tasks[i].urgency)
                            <= C28_rank(snapshot(c).pending_tasks[j].urgency)

\* ------------------------------------------------------------------------
\* C26
\* ------------------------------------------------------------------------
\* C26: no stage of compile updates in place: the extractions held for the
\* call are the dicts extract_clinical_info returned, and the steps of
\* conflict resolution and deduplication (line 61) and of prioritization
\* (line 65) leave the merged dict they are given as it was
C26_NoInPlaceUpdate ==
    /\ [](\A c \in SeqCallers :
            pc[c] \in {"merge", "resolve", "prioritize", "synthesize", "build"} =>
                \A k \in 1..Len(extracted_data) : extracted_data[k] = gen_log[c][k].result)
    /\ [][\A c \in SeqCallers :
            pc[c] \in {"resolve", "prioritize"} => merged'[c] = merged[c]]_vars

\* ------------------------------------------------------------------------
\* C30
\* ------------------------------------------------------------------------
\* C30: when compile calls overlap on the instance, each call that returns
\* gives the snapshot it computes alone from its documents, its mode and the
\* answers given to it, and its status request lists the items extracted from
\* its own documents, all of them and no others
C30_OverlappingCallsIsolated ==
    \A c \in Callers :
        returned(c) =>
            /\ snapshot(c).pending_tasks = snapshot_of_call(c).pending_tasks
            /\ snapshot(c).active_problems = snapshot_of_call(c).active_problems
            /\ snapshot(c) = snapshot_of_call(c)
            /\ \E k \in 1..Len(gen_log[c]) :
                  gen_log[c][k].request = synthesize_request(extractions_of_call(c))

====
